---- MODULE Spec2Model ----
(***************************************************************************)
(* A model of the Packt Free Learning claimer: the authenticated API       *)
(* client (src/src/api.py), the library catalog and the offer claimer      *)
(* (src/src/claimer.py), the anti-captcha client                           *)
(* (src/src/utils/anticaptcha.py), the downloader                          *)
(* (src/src/downloader.py) and the command-line script with its object     *)
(* (src/src/packtPublishingFreeEbook.py).                                  *)
(*                                                                         *)
(* The program is single-threaded.  Every function is a small step         *)
(* machine with its own program counter; a caller hands a request to the   *)
(* callee by setting the callee's counter and waits for it to finish.      *)
(* SpecThreads alone lets two threads call the API client, to see what     *)
(* the client does when its calls are interleaved.                         *)
(***************************************************************************)
EXTENDS Integers, Sequences, FiniteSets, TLC

VARIABLES
    \* ---- PacktAPIClient (api.py) ----
    apiPc,        \* "new" | "failed" | "idle" | "send" | "refresh" | "resend" | "done" | "raised"
    apiReq,       \* the request of the current call: [m, url, arg]
    reqSent,      \* what session.request sent during the current call: seq of [req, auth]
    reqStatuses,  \* the status codes received during the current call
    reqFetches,   \* fetch_jwt calls made during the current call
    apiResp,      \* status of the response returned by request()
    hdrAuth,      \* session.headers['authorization']: 0 absent, -1 'Bearer None', k 'Bearer jwt_k'
    fetchSerial,  \* login requests posted so far
    \* ---- get_all_books_data (claimer.py) ----
    catPc,        \* "idle" | "start" | "count" | "pages" | "page" | "done" | "raised"
    catTotal,     \* pages_total
    catCount,     \* the count the count request reported, -1 before it
    catPages,     \* the values get_single_page_books_data returned so far
    catResult,    \* the value returned: [ok |-> FALSE] is None
    catErr,       \* the exception that left get_all_books_data
    catLog,       \* the log lines of get_all_books_data and get_single_page_books_data
    \* ---- claim_product (claimer.py) ----
    clPc,         \* position inside claim_product
    offer,        \* [id, productId] of the offer
    clNOffers,    \* how many offers the offers response listed, -1 before it
    userId,       \* user_id
    productData,  \* product_data: [some |-> FALSE] is None
    clOwned,      \* what the catalog check found: "unknown" | "yes" | "no"
    clSolution,   \* recaptcha_solution, "" before it
    clStatus,     \* status of the claim PUT response, 0 before it
    clOutcome,    \* "none" | "returned" | "raised"
    clErr,        \* the exception that left claim_product
    clLog,        \* the log lines of claim_product
    calls,        \* the api_client calls made by claimer.py, in order
    \* ---- Anticaptcha (anticaptcha.py) ----
    caPc,         \* "idle" | "create" | "check" | "poll" | "sleep" | "done" | "raised"
    now,          \* time.time() - start_time, in seconds
    nCreate,      \* createTask requests posted
    nPolls,       \* getTaskResult requests posted
    nSleeps,      \* time.sleep(1) calls made
    nNotReady,    \* poll responses received whose status was not ready
    caLast,       \* the last response received from the provider
    caErr,        \* the AnticaptchaException raised
    caSolution,   \* the value solve_recaptcha returned
    \* ---- download_products (downloader.py) ----
    dlPc,         \* "idle" | "loop" | "types" | "fmt" | "indirect" | "url" | "fetch" | "stream"
                  \* | "done" | "raised" | "crashed"
    dlFormats,    \* formats: the formats asked for
    dlIntoFolder, \* into_folder
    dlNBooks,     \* how many books of product_list the loop has taken
    dlBook,       \* book['id'] of the book the loop is at, 0 before the first
    dlUrls,       \* the formats of download_urls
    dlFmt,        \* the place of the inner loop in FormatOrder
    disk,         \* what is known of the files under download_directory: path -> contents
    dlWritten,    \* chunks written to the open file
    dlCount,      \* nr_of_books_downloaded
    dlLogged,     \* the last line download_products logged
    dlFinal,      \* the count of the closing log line, -1 before it
    dlReturn,     \* the value download_products returned
    dlErr,        \* the exception that left download_products
    \* ---- two threads calling request() on one client (api.py) ----
    thr,          \* per thread, its call: [pc, auth, status, fetched]
    \* ---- PacktPublishingFreeEbook (packtPublishingFreeEbook.py) ----
    session,      \* self.session: "none" is None, "open" a requests.Session
    loggedIn,     \* the login on self.session was made and verified
    nLogins,      \* logins completed on this object
    nCalls,       \* grab_ebook and download_books calls made on this object
    pfPc,         \* "idle" | "login" | "body" | "claim" | "loop" | "form" | "stream"
                  \* | "returned" | "raised"
    pfOp,         \* the operation called: "" | "grab" | "download"
    pfErr,        \* the exception that left the operation
    bookTitle,    \* self.book_title: 0 is "", else the id of the title
    pfNotes,      \* what the operation logged of items it passed over:
                  \* "already_grabbed", "exists", "failed"
    pfTitles,     \* titles: 0 is None, else the one title asked for
    pfIntoFolder, \* into_folder
    pfNBooks,     \* how many books of temp_book_data the loop has taken
    pfBook,       \* the title of the book the loop is at, 0 before the first
    pfUrls,       \* the formats of the book's download_urls
    pfForm,       \* the place of the inner loop in the formats
    files,        \* what is known of the files under download_folder_path: path -> contents
    pfCount,      \* nr_of_books_downloaded
    \* ---- __main__ (packtPublishingFreeEbook.py) ----
    mnPc,         \* "start" | "config" | "grab" | "grabbing" | "download" | "downloading"
                  \* | "send" | "success" | "handler" | "exited"
    args,         \* the flags given on the command line
    mnStages,     \* the stages begun, in order
    mnEscaped,    \* the stage an exception escaped from, "" when none did
    mnSkipped,    \* what the operations reported as skipped or failed and logged
    mnSuccess,    \* the success message was logged
    exitCode,     \* the exit code of the process, -1 while it runs
    \* ---- the destination paths of download_products over successive calls ----
    ptFormats,    \* formats of the call under way
    ptIntoFolder, \* into_folder of the call under way
    ptOwner,      \* the files of download_directory: path -> <<product id, format>> written there
    ptSkip        \* the last already-exists skip: whom it was taken for, whose file was found

apiVars == <<apiPc, apiReq, reqSent, reqStatuses, reqFetches, apiResp, hdrAuth, fetchSerial>>
catVars == <<catPc, catTotal, catCount, catPages, catResult, catErr, catLog>>
clVars  == <<clPc, offer, clNOffers, userId, productData, clOwned, clSolution, clStatus, clOutcome, clErr, clLog>>
caVars  == <<caPc, now, nCreate, nPolls, nSleeps, nNotReady, caLast, caErr, caSolution>>
dlVars  == <<dlPc, dlFormats, dlIntoFolder, dlNBooks, dlBook, dlUrls, dlFmt, disk,
             dlWritten, dlCount, dlLogged, dlFinal, dlReturn, dlErr>>
thVars  == <<thr>>
pfVars  == <<session, loggedIn, nLogins, nCalls, pfPc, pfOp, pfErr, bookTitle, pfNotes,
             pfTitles, pfIntoFolder, pfNBooks, pfBook, pfUrls, pfForm, files, pfCount>>
mnVars  == <<mnPc, args, mnStages, mnEscaped, mnSkipped, mnSuccess, exitCode>>
ptVars  == <<ptFormats, ptIntoFolder, ptOwner, ptSkip>>
vars    == <<apiVars, catVars, clVars, calls, caVars, dlVars, thVars, pfVars, mnVars, ptVars>>

----------------------------------------------------------------------------
(* Bounds of the model *)

\* login requests the upstream answers before it stops sending 401
MaxFetches == 2
\* product ids are 1..MaxId
MaxId == 2
\* the largest count the products endpoint reports
MaxCount == 26
\* the longest page the products endpoint returns
MaxPageLen == 2
\* the longest product_list download_products is given
MaxProducts == 2
\* the most chunks the body of a file is streamed in
MaxChunks == 2

----------------------------------------------------------------------------
(* PacktAPIClient *)

DEFAULT_PAGINATION_SIZE == 25

\* status codes of upstream responses
Statuses == {200, 401, 409, 500}

\* what requests.post(PACKT_API_LOGIN_URL) can give: a body with data.access, an
\* exception, a body without data, a body whose data has no access
LoginOutcomes == {"ok", "error", "no_data", "no_access"}

NoReq == [m |-> "", url |-> "", arg |-> -1, body |-> ""]

Urls == {"offers", "user", "summary", "products", "claim"}

Methods == {"get", "put"}

\* the header fetch_jwt leaves given what the login request gave
FetchJwtHeader(outcome, old, serial) ==
    CASE outcome = "ok"        -> serial
      [] outcome = "no_access" -> -1
      [] OTHER                 -> old

\* the mutant of FetchJwtRaises: only the missing data of the body is caught
FetchJwtRaises_OnlyAttributeError(outcome) == outcome = "error"

\* api.py:33-40: the whole body of fetch_jwt is inside try/except Exception,
\* so nothing the login request gives leaves fetch_jwt as an exception
FetchJwtRaises(outcome) == FALSE

\* the mutant of SendAuth: the retry re-sends the headers of the first attempt
SendAuth_Stale == IF reqSent = <<>> THEN hdrAuth ELSE reqSent[1].auth

\* api.py:44, 48: session.request sends the session's headers as they are at
\* the moment of the call
SendAuth == hdrAuth

\* the mutant of ShouldRefresh: every client error triggers the refresh
ShouldRefresh_AnyFailure(status) == status # 200

\* api.py:45
ShouldRefresh(status) == status = 401

ApiInit ==
    /\ apiPc = "new"
    /\ apiReq = NoReq
    /\ reqSent = <<>>
    /\ reqStatuses = <<>>
    /\ reqFetches = 0
    /\ apiResp = 0
    /\ hdrAuth = 0
    /\ fetchSerial = 0

\* PacktAPIClient.__init__: the initial fetch_jwt
ApiConstruct ==
    /\ apiPc = "new"
    /\ \E o \in LoginOutcomes :
          /\ fetchSerial' = fetchSerial + 1
          /\ IF FetchJwtRaises(o)
               THEN apiPc' = "failed" /\ hdrAuth' = hdrAuth
               ELSE /\ apiPc' = "idle"
                    /\ hdrAuth' = FetchJwtHeader(o, hdrAuth, fetchSerial + 1)
    /\ UNCHANGED <<apiReq, reqSent, reqStatuses, reqFetches, apiResp>>
    /\ UNCHANGED <<catVars, clVars, calls, caVars>>
    /\ UNCHANGED dlVars
    /\ UNCHANGED <<thVars, pfVars, mnVars, ptVars>>

\* the caller's half of request(): what a call of api_client.get/put sets up
ApiInvoke(req) ==
    /\ apiPc = "idle"
    /\ apiPc' = "send"
    /\ apiReq' = req
    /\ reqSent' = <<>>
    /\ reqStatuses' = <<>>
    /\ reqFetches' = 0
    /\ apiResp' = 0
    /\ UNCHANGED <<hdrAuth, fetchSerial>>

\* the statuses the upstream may answer with: it stops answering 401 once
\* MaxFetches logins were made
Answerable == IF fetchSerial < MaxFetches THEN Statuses ELSE Statuses \ {401}

\* api.py:44-45, 49-50: the first session.request and the branch on its status
ApiSend ==
    /\ apiPc = "send"
    /\ reqSent' = Append(reqSent, [req |-> apiReq, auth |-> SendAuth])
    /\ \/ \E s \in Answerable :
             /\ reqStatuses' = Append(reqStatuses, s)
             /\ IF ShouldRefresh(s)
                  THEN apiPc' = "refresh" /\ apiResp' = apiResp
                  ELSE apiPc' = "done" /\ apiResp' = s
       \/ \* session.request raises (connection error)
          /\ apiPc' = "raised"
          /\ UNCHANGED <<reqStatuses, apiResp>>
    /\ UNCHANGED <<apiReq, reqFetches, hdrAuth, fetchSerial>>
    /\ UNCHANGED <<catVars, clVars, calls, caVars>>
    /\ UNCHANGED dlVars
    /\ UNCHANGED <<thVars, pfVars, mnVars, ptVars>>

\* api.py:47 and 32-40: fetch_jwt
ApiFetchJwt ==
    /\ apiPc = "refresh"
    /\ \E o \in LoginOutcomes :
          /\ fetchSerial' = fetchSerial + 1
          /\ IF FetchJwtRaises(o)
               THEN apiPc' = "raised" /\ hdrAuth' = hdrAuth
               ELSE /\ apiPc' = "resend"
                    /\ hdrAuth' = FetchJwtHeader(o, hdrAuth, fetchSerial + 1)
    /\ reqFetches' = reqFetches + 1
    /\ UNCHANGED <<apiReq, reqSent, reqStatuses, apiResp>>
    /\ UNCHANGED <<catVars, clVars, calls, caVars>>
    /\ UNCHANGED dlVars
    /\ UNCHANGED <<thVars, pfVars, mnVars, ptVars>>

\* api.py:48: the second session.request, returned whatever its status
ApiResend ==
    /\ apiPc = "resend"
    /\ reqSent' = Append(reqSent, [req |-> apiReq, auth |-> SendAuth])
    /\ \/ \E s \in Statuses :
             /\ reqStatuses' = Append(reqStatuses, s)
             /\ apiPc' = "done"
             /\ apiResp' = s
       \/ /\ apiPc' = "raised"
          /\ UNCHANGED <<reqStatuses, apiResp>>
    /\ UNCHANGED <<apiReq, reqFetches, hdrAuth, fetchSerial>>
    /\ UNCHANGED <<catVars, clVars, calls, caVars>>
    /\ UNCHANGED dlVars
    /\ UNCHANGED <<thVars, pfVars, mnVars, ptVars>>

\* request() returns to its caller: its locals are gone, the session stays
ApiTake ==
    /\ apiPc \in {"done", "raised"}
    /\ apiPc' = "idle"
    /\ apiReq' = NoReq
    /\ reqSent' = <<>>
    /\ reqStatuses' = <<>>
    /\ reqFetches' = 0
    /\ apiResp' = 0
    /\ UNCHANGED <<hdrAuth, fetchSerial>>

\* the steps of the client itself
ApiStep ==
    \/ ApiConstruct
    \/ ApiSend
    \/ ApiFetchJwt
    \/ ApiResend

----------------------------------------------------------------------------
(* Anticaptcha *)

\* anticaptcha.py:22, Anticaptcha.timeout, in seconds
timeout == 120

\* how long a slow getTaskResult request takes, in seconds (a fast one takes 0)
SlowPoll == 40

PollTimes == {0, SlowPoll}

Solutions == {"03AGdBq2", "03AHJ_Vu"}

NoResponse ==
    [errorId |-> 0, errorCode |-> "", errorDescription |-> "", taskId |-> 0,
     status |-> "", solution |-> ""]

\* the provider's error answers: errorId > 0 with its code and description
ErrorResponses ==
    {[NoResponse EXCEPT !.errorId = 1, !.errorCode = "ERROR_KEY_DOES_NOT_EXIST",
                        !.errorDescription = "Account authorization key not found"],
     [NoResponse EXCEPT !.errorId = 10, !.errorCode = "ERROR_ZERO_BALANCE",
                        !.errorDescription = "Account has zero balance"]}

\* the answers to createTask
CreateResponses == {[NoResponse EXCEPT !.taskId = 7]} \cup ErrorResponses

\* the answers to getTaskResult
PollResponses ==
    {[NoResponse EXCEPT !.status = "processing"]}
    \cup {[NoResponse EXCEPT !.status = "ready", !.solution = s] : s \in Solutions}
    \cup ErrorResponses

NoError == [kind |-> "", code |-> "", desc |-> "", value |-> 0]

\* the mutant of HasError: only the authorization error is recognised
HasError_OnlyKeyError(response) == response.errorCode = "ERROR_KEY_DOES_NOT_EXIST"

\* anticaptcha.py:29: if response.get('errorId')
HasError(response) == response.errorId # 0

\* anticaptcha.py:30-33: the exception of __post_request
ProviderError(response) ==
    [kind |-> "provider", code |-> response.errorCode,
     desc |-> response.errorDescription, value |-> 0]

\* anticaptcha.py:59: the exception raised when the loop ends
TimeoutError == [kind |-> "timeout", code |-> "", desc |-> "", value |-> timeout]

\* an exception of requests.post itself (no response arrived)
NetworkError == [kind |-> "network", code |-> "", desc |-> "", value |-> 0]

\* the mutant of WithinTimeout: the bound is inclusive
WithinTimeout_Inclusive(elapsed) == elapsed <= timeout

\* anticaptcha.py:54: the loop condition
WithinTimeout(elapsed) == elapsed < timeout

\* anticaptcha.py:56
IsReady(response) == response.status = "ready"

\* the mutant of AfterNotReady: the loop polls again without sleeping
AfterNotReady_NoSleep == "check"

\* anticaptcha.py:58: a poll that is not ready is followed by the sleep
AfterNotReady == "sleep"

\* anticaptcha.py:58: time.sleep(1)
SleepSeconds == 1

CaInit ==
    /\ caPc = "idle"
    /\ now = 0
    /\ nCreate = 0
    /\ nPolls = 0
    /\ nSleeps = 0
    /\ nNotReady = 0
    /\ caLast = NoResponse
    /\ caErr = NoError
    /\ caSolution = ""

\* solve_recaptcha is called
CaStart ==
    /\ caPc = "idle"
    /\ caPc' = "create"
    /\ UNCHANGED <<now, nCreate, nPolls, nSleeps, nNotReady, caLast, caErr, caSolution>>

\* __create_noproxy_task, then start_time = time.time()
CaCreateTask ==
    /\ caPc = "create"
    /\ nCreate' = nCreate + 1
    /\ \/ \E r \in CreateResponses :
             /\ caLast' = r
             /\ IF HasError(r)
                  THEN caPc' = "raised" /\ caErr' = ProviderError(r)
                  ELSE caPc' = "check" /\ caErr' = caErr
       \/ /\ caPc' = "raised"
          /\ caErr' = NetworkError
          /\ caLast' = caLast
    /\ now' = 0
    /\ UNCHANGED <<nPolls, nSleeps, nNotReady, caSolution>>
    /\ UNCHANGED <<apiVars, catVars, clVars, calls>>
    /\ UNCHANGED dlVars
    /\ UNCHANGED <<thVars, pfVars, mnVars, ptVars>>

\* the while condition of __wait_for_task_result and the raise after the loop
CaCheck ==
    /\ caPc = "check"
    /\ IF WithinTimeout(now)
         THEN caPc' = "poll" /\ caErr' = caErr
         ELSE caPc' = "raised" /\ caErr' = TimeoutError
    /\ UNCHANGED <<now, nCreate, nPolls, nSleeps, nNotReady, caLast, caSolution>>
    /\ UNCHANGED <<apiVars, catVars, clVars, calls>>
    /\ UNCHANGED dlVars
    /\ UNCHANGED <<thVars, pfVars, mnVars, ptVars>>

\* one getTaskResult request and the branch on its answer
CaPoll ==
    /\ caPc = "poll"
    /\ nPolls' = nPolls + 1
    /\ \E d \in PollTimes : now' = now + d
    /\ \/ \E r \in PollResponses :
             /\ caLast' = r
             /\ IF HasError(r)
                  THEN /\ caPc' = "raised"
                       /\ caErr' = ProviderError(r)
                       /\ UNCHANGED <<nNotReady, caSolution>>
                  ELSE IF IsReady(r)
                  THEN /\ caPc' = "done"
                       /\ caSolution' = r.solution
                       /\ UNCHANGED <<nNotReady, caErr>>
                  ELSE /\ caPc' = AfterNotReady
                       /\ nNotReady' = nNotReady + 1
                       /\ UNCHANGED <<caErr, caSolution>>
       \/ /\ caPc' = "raised"
          /\ caErr' = NetworkError
          /\ UNCHANGED <<caLast, nNotReady, caSolution>>
    /\ UNCHANGED <<nCreate, nSleeps>>
    /\ UNCHANGED <<apiVars, catVars, clVars, calls>>
    /\ UNCHANGED dlVars
    /\ UNCHANGED <<thVars, pfVars, mnVars, ptVars>>

\* time.sleep(1)
CaSleep ==
    /\ caPc = "sleep"
    /\ nSleeps' = nSleeps + 1
    /\ now' = now + SleepSeconds
    /\ caPc' = "check"
    /\ UNCHANGED <<nCreate, nPolls, nNotReady, caLast, caErr, caSolution>>
    /\ UNCHANGED <<apiVars, catVars, clVars, calls>>
    /\ UNCHANGED dlVars
    /\ UNCHANGED <<thVars, pfVars, mnVars, ptVars>>

\* solve_recaptcha has returned or raised: its locals are gone
CaTake ==
    /\ caPc \in {"done", "raised"}
    /\ caPc' = "idle"
    /\ now' = 0
    /\ nCreate' = 0
    /\ nPolls' = 0
    /\ nSleeps' = 0
    /\ nNotReady' = 0
    /\ caLast' = NoResponse
    /\ caErr' = NoError
    /\ caSolution' = ""

CaStep ==
    \/ CaCreateTask
    \/ CaCheck
    \/ CaPoll
    \/ CaSleep

----------------------------------------------------------------------------
(* get_all_books_data and get_single_page_books_data *)

SeqsUpTo(S, n) == UNION {[1..k -> S] : k \in 0..n}

\* productName of a product id, as the upstream reports it: titles are not unique
TitleOf(id) == IF id = 1 THEN "Learning Python" ELSE "Mastering Go"

\* claimer.py:50: {'id': t['productId'], 'title': t['productName']}
Product(id) == [id |-> id, title |-> TitleOf(id)]

\* the bodies the count request can carry: a count, a body json() cannot parse,
\* a JSON value that is no object, an object without count, a count that is a string
CountBodies ==
    {[kind |-> "count", n |-> k] : k \in 0..MaxCount}
    \cup {[kind |-> b, n |-> 0] : b \in {"unparsable", "not_dict", "no_count", "str_count"}}

\* the sequences of SeqsUpTo(S, n) that list no element twice
DistinctSeqs(S, n) ==
    {q \in SeqsUpTo(S, n) : \A i, j \in 1..Len(q) : i # j => q[i] # q[j]}

\* the bodies a page request can carry: a data list of products (one page of the
\* upstream never lists a product twice), or anything else
PageBodies ==
    {[kind |-> "data", ids |-> q] : q \in DistinctSeqs(1..MaxId, MaxPageLen)}
    \cup {[kind |-> "malformed", ids |-> <<>>]}

\* None
NoList == [ok |-> FALSE, items |-> <<>>]

SomeList(items) == [ok |-> TRUE, items |-> items]

\* int(ceil(count / DEFAULT_PAGINATION_SIZE))
PagesTotal(count) == (count + DEFAULT_PAGINATION_SIZE - 1) \div DEFAULT_PAGINATION_SIZE

\* the request of one page
PageRequest(page) ==
    [m |-> "get", url |-> "products", arg |-> DEFAULT_PAGINATION_SIZE * page, body |-> ""]

CountRequest == [m |-> "get", url |-> "products", arg |-> -1, body |-> ""]

RECURSIVE Flatten(_)
\* list(chain(*pages)) when no page is None
Flatten(pages) ==
    IF pages = <<>> THEN <<>> ELSE Head(pages).items \o Flatten(Tail(pages))

\* claimer.py:51-52: the except branch of get_single_page_books_data returns None
PageOnFailure == NoList

\* claimer.py:29-32, 35: list(chain(*map(...))): iterating a None page is a
\* TypeError, which the except clause turns into a None result
ChainPages(pages) ==
    IF \E i \in 1..Len(pages) : ~pages[i].ok
      THEN NoList
      ELSE SomeList(Flatten(pages))

LogLine(level, what, page) == [level |-> level, what |-> what, page |-> page]

CatInit ==
    /\ catPc = "idle"
    /\ catTotal = 0
    /\ catCount = -1
    /\ catPages = <<>>
    /\ catResult = NoList
    /\ catErr = ""
    /\ catLog = <<>>

\* get_all_books_data is called
CatInvoke ==
    /\ catPc = "idle"
    /\ catPc' = "start"
    /\ UNCHANGED <<catTotal, catCount, catPages, catResult, catErr, catLog>>

\* get_all_books_data has returned or raised: its locals are gone
CatTake ==
    /\ catPc \in {"done", "raised"}
    /\ catPc' = "idle"
    /\ catTotal' = 0
    /\ catCount' = -1
    /\ catPages' = <<>>
    /\ catResult' = NoList
    /\ catErr' = ""
    /\ catLog' = <<>>

\* claimer.py:27: api_client.get(PACKT_API_PRODUCTS_URL)
CatCountCall ==
    /\ catPc = "start"
    /\ ApiInvoke(CountRequest)
    /\ calls' = Append(calls, CountRequest)
    /\ catPc' = "count"
    /\ UNCHANGED <<catTotal, catCount, catPages, catResult, catErr, catLog>>
    /\ UNCHANGED <<clVars, caVars>>
    /\ UNCHANGED dlVars
    /\ UNCHANGED <<thVars, pfVars, mnVars, ptVars>>

\* claimer.py:28 and 35-36: the count is read and pages_total computed
CatGotCount ==
    /\ catPc = "count"
    /\ ApiTake
    /\ \/ /\ apiPc = "raised"
          \* a ConnectionError is neither AttributeError nor TypeError
          /\ catPc' = "raised"
          /\ catErr' = "ConnectionError"
          /\ UNCHANGED <<catTotal, catCount, catResult, catLog>>
       \/ /\ apiPc = "done"
          /\ \E b \in CountBodies :
                CASE b.kind = "count" ->
                       /\ catTotal' = PagesTotal(b.n)
                       /\ catCount' = b.n
                       /\ catPc' = "pages"
                       /\ UNCHANGED <<catResult, catErr, catLog>>
                  [] b.kind = "unparsable" ->
                       \* json() raises a ValueError
                       /\ catPc' = "raised"
                       /\ catErr' = "ValueError"
                       /\ UNCHANGED <<catTotal, catCount, catResult, catLog>>
                  [] OTHER ->
                       \* AttributeError or TypeError: logged, None returned
                       /\ catPc' = "done"
                       /\ catResult' = NoList
                       /\ catLog' = Append(catLog, LogLine("error", "books", -1))
                       /\ UNCHANGED <<catTotal, catCount, catErr>>
    /\ UNCHANGED <<catPages, calls>>
    /\ UNCHANGED <<clVars, caVars>>
    /\ UNCHANGED dlVars
    /\ UNCHANGED <<thVars, pfVars, mnVars, ptVars>>

\* claimer.py:42-49: the request of page Len(catPages)
CatPageCall ==
    /\ catPc = "pages"
    /\ Len(catPages) < catTotal
    /\ ApiInvoke(PageRequest(Len(catPages)))
    /\ calls' = Append(calls, PageRequest(Len(catPages)))
    /\ catPc' = "page"
    /\ UNCHANGED <<catTotal, catCount, catPages, catResult, catErr, catLog>>
    /\ UNCHANGED <<clVars, caVars>>
    /\ UNCHANGED dlVars
    /\ UNCHANGED <<thVars, pfVars, mnVars, ptVars>>

\* claimer.py:50-52: the page's products, or the logged failure
CatGotPage ==
    /\ catPc = "page"
    /\ ApiTake
    /\ \/ /\ apiPc = "done"
          /\ \E b \in PageBodies :
                /\ b.kind = "data"
                /\ catPages' = Append(catPages,
                                  SomeList([i \in 1..Len(b.ids) |-> Product(b.ids[i])]))
                /\ catLog' = catLog
       \/ /\ \/ apiPc = "raised"
             \/ apiPc = "done" /\ \E b \in PageBodies : b.kind = "malformed"
          /\ catPages' = Append(catPages, PageOnFailure)
          /\ catLog' = Append(catLog, LogLine("error", "page", Len(catPages)))
    /\ catPc' = "pages"
    /\ UNCHANGED <<catTotal, catCount, catResult, catErr, calls>>
    /\ UNCHANGED <<clVars, caVars>>
    /\ UNCHANGED dlVars
    /\ UNCHANGED <<thVars, pfVars, mnVars, ptVars>>

\* claimer.py:29-36: the pages are chained into the result
CatChain ==
    /\ catPc = "pages"
    /\ Len(catPages) = catTotal
    /\ catResult' = ChainPages(catPages)
    /\ catLog' = Append(catLog,
                    IF ChainPages(catPages).ok
                      THEN LogLine("info", "books", -1)
                      ELSE LogLine("error", "books", -1))
    /\ catPc' = "done"
    /\ UNCHANGED <<catTotal, catCount, catPages, catErr>>
    /\ UNCHANGED <<apiVars, clVars, calls, caVars>>
    /\ UNCHANGED dlVars
    /\ UNCHANGED <<thVars, pfVars, mnVars, ptVars>>

CatStep ==
    \/ CatCountCall
    \/ CatGotCount
    \/ CatPageCall
    \/ CatGotPage
    \/ CatChain

----------------------------------------------------------------------------
(* claim_product *)

NoOffer == [id |-> 0, productId |-> 0]

Offers == {[id |-> 1, productId |-> p] : p \in 1..MaxId}

\* the bodies of the offers response: a data list of zero, one or two offers, a
\* body json() cannot parse, an object without data
OfferBodies ==
    {[kind |-> "data", offers |-> q] : q \in SeqsUpTo(Offers, 1)}
    \cup {[kind |-> "data", offers |-> <<o, o>>] : o \in Offers}
    \cup {[kind |-> b, offers |-> <<>>] : b \in {"unparsable", "no_data"}}

UserIds == {"u1"}

\* the bodies of the user response
UserBodies ==
    {[kind |-> "data", users |-> q] : q \in SeqsUpTo(UserIds, 1)}
    \cup {[kind |-> b, users |-> <<>>] : b \in {"unparsable", "no_data"}}

\* the bodies of a product summary: with a title, not JSON, without a title
SummaryBodies == {"title", "unparsable", "no_title"}

\* None
NoProduct == [some |-> FALSE, id |-> 0, title |-> ""]

OffersRequest == [m |-> "get", url |-> "offers", arg |-> -1, body |-> ""]

UserRequest == [m |-> "get", url |-> "user", arg |-> -1, body |-> ""]

SummaryRequest(productId) == [m |-> "get", url |-> "summary", arg |-> productId, body |-> ""]

\* the mutant of ClaimRequest: the PUT goes out without the solution
ClaimRequest_NoSolution(offerId, solution) ==
    [m |-> "put", url |-> "claim", arg |-> offerId, body |-> ""]

\* claimer.py:86-89: PUT claims/{offer_id} with json {'recaptcha': solution}
ClaimRequest(offerId, solution) == [m |-> "put", url |-> "claim", arg |-> offerId, body |-> solution]

\* the mutant of UnpackOne: data[0] instead of [x] = data
UnpackOne_FirstItem(kind, list) ==
    CASE kind = "unparsable" -> "ValueError"
      [] kind = "no_data"    -> "TypeError"
      [] Len(list) = 0       -> "IndexError"
      [] OTHER               -> ""

\* claimer.py:67, 72: [x] = data: the exception of unpacking a list that has not
\* exactly one element, "" when it has
UnpackOne(kind, list) ==
    CASE kind = "unparsable" -> "ValueError"
      [] kind = "no_data"    -> "TypeError"
      [] Len(list) # 1       -> "ValueError"
      [] OTHER               -> ""

\* claimer.py:79: any(product_id == book['id'] for book in books)
Owns(books, productId) == \E i \in 1..Len(books) : books[i].id = productId

\* the mutant of CatalogCheck: a None catalog is taken as an empty one
CatalogCheck_NoneIsEmpty(result, productId) ==
    IF result.ok /\ Owns(result.items, productId) THEN "yes" ELSE "no"

\* claimer.py:79: the generator handed to any() iterates the catalog: a None
\* catalog raises a TypeError, otherwise the product is owned or not
CatalogCheck(result, productId) ==
    CASE ~result.ok                       -> "TypeError"
      [] Owns(result.items, productId)    -> "yes"
      [] OTHER                            -> "no"

\* claimer.py:80, 92, 94: '...'.format(product_data['title']) raises a TypeError
\* when product_data is None
TitleForLog(product) == IF product.some THEN "" ELSE "TypeError"

ClInit ==
    /\ clPc = "start"
    /\ offer = NoOffer
    /\ clNOffers = -1
    /\ userId = ""
    /\ productData = NoProduct
    /\ clOwned = "unknown"
    /\ clSolution = ""
    /\ clStatus = 0
    /\ clOutcome = "none"
    /\ clErr = ""
    /\ clLog = <<>>

\* an exception leaves claim_product
ClRaise(exc) ==
    /\ clPc' = "end"
    /\ clOutcome' = "raised"
    /\ clErr' = exc

\* claim_product returns product_data
ClReturn ==
    /\ clPc' = "end"
    /\ clOutcome' = "returned"
    /\ clErr' = clErr

\* claimer.py:57-66: the offers request
ClOffersCall ==
    /\ clPc = "start"
    /\ ApiInvoke(OffersRequest)
    /\ calls' = Append(calls, OffersRequest)
    /\ clPc' = "offers"
    /\ clLog' = Append(clLog, LogLine("info", "start", -1))
    /\ UNCHANGED <<offer, clNOffers, userId, productData, clOwned, clSolution, clStatus, clOutcome, clErr>>
    /\ UNCHANGED <<catVars, caVars>>
    /\ UNCHANGED dlVars
    /\ UNCHANGED <<thVars, pfVars, mnVars, ptVars>>

\* claimer.py:67-69: [offer_data] = offer_response.json().get('data')
ClGotOffers ==
    /\ clPc = "offers"
    /\ ApiTake
    /\ \/ /\ apiPc = "raised"
          /\ ClRaise("ConnectionError")
          /\ UNCHANGED <<offer, clNOffers>>
       \/ /\ apiPc = "done"
          /\ \E b \in OfferBodies :
                /\ clNOffers' = IF b.kind = "data" THEN Len(b.offers) ELSE clNOffers
                /\ IF UnpackOne(b.kind, b.offers) # ""
                     THEN ClRaise(UnpackOne(b.kind, b.offers)) /\ offer' = offer
                     ELSE /\ offer' = b.offers[1]
                          /\ clPc' = "user_call"
                          /\ UNCHANGED <<clOutcome, clErr>>
    /\ UNCHANGED <<userId, productData, clOwned, clSolution, clStatus, clLog>>
    /\ UNCHANGED <<catVars, calls, caVars>>
    /\ UNCHANGED dlVars
    /\ UNCHANGED <<thVars, pfVars, mnVars, ptVars>>

\* claimer.py:71: the user request
ClUserCall ==
    /\ clPc = "user_call"
    /\ ApiInvoke(UserRequest)
    /\ calls' = Append(calls, UserRequest)
    /\ clPc' = "user"
    /\ UNCHANGED <<offer, clNOffers, userId, productData, clOwned, clSolution, clStatus, clOutcome, clErr, clLog>>
    /\ UNCHANGED <<catVars, caVars>>
    /\ UNCHANGED dlVars
    /\ UNCHANGED <<thVars, pfVars, mnVars, ptVars>>

\* claimer.py:72-73: [user_data] = user_response.json().get('data')
ClGotUser ==
    /\ clPc = "user"
    /\ ApiTake
    /\ \/ /\ apiPc = "raised"
          /\ ClRaise("ConnectionError")
          /\ userId' = userId
       \/ /\ apiPc = "done"
          /\ \E b \in UserBodies :
                IF UnpackOne(b.kind, b.users) # ""
                  THEN ClRaise(UnpackOne(b.kind, b.users)) /\ userId' = userId
                  ELSE /\ userId' = b.users[1]
                       /\ clPc' = "summary_call"
                       /\ UNCHANGED <<clOutcome, clErr>>
    /\ UNCHANGED <<offer, clNOffers, productData, clOwned, clSolution, clStatus, clLog>>
    /\ UNCHANGED <<catVars, calls, caVars>>
    /\ UNCHANGED dlVars
    /\ UNCHANGED <<thVars, pfVars, mnVars, ptVars>>

\* claimer.py:75: the product summary request
ClSummaryCall ==
    /\ clPc = "summary_call"
    /\ ApiInvoke(SummaryRequest(offer.productId))
    /\ calls' = Append(calls, SummaryRequest(offer.productId))
    /\ clPc' = "summary"
    /\ UNCHANGED <<offer, clNOffers, userId, productData, clOwned, clSolution, clStatus, clOutcome, clErr, clLog>>
    /\ UNCHANGED <<catVars, caVars>>
    /\ UNCHANGED dlVars
    /\ UNCHANGED <<thVars, pfVars, mnVars, ptVars>>

\* claimer.py:76-77: product_data is the product when the status is 200, else None
ClGotSummary ==
    /\ clPc = "summary"
    /\ ApiTake
    /\ \/ /\ apiPc = "raised"
          /\ ClRaise("ConnectionError")
          /\ productData' = productData
       \/ /\ apiPc = "done"
          /\ apiResp = 200
          /\ \E b \in SummaryBodies :
                CASE b = "title" ->
                       /\ productData' = [some |-> TRUE, id |-> offer.productId,
                                          title |-> TitleOf(offer.productId)]
                       /\ clPc' = "catalog_call"
                       /\ UNCHANGED <<clOutcome, clErr>>
                  [] b = "unparsable" -> ClRaise("ValueError") /\ productData' = productData
                  [] OTHER -> ClRaise("KeyError") /\ productData' = productData
       \/ /\ apiPc = "done"
          /\ apiResp # 200
          /\ productData' = NoProduct
          /\ clPc' = "catalog_call"
          /\ UNCHANGED <<clOutcome, clErr>>
    /\ UNCHANGED <<offer, clNOffers, userId, clOwned, clSolution, clStatus, clLog>>
    /\ UNCHANGED <<catVars, calls, caVars>>
    /\ UNCHANGED dlVars
    /\ UNCHANGED <<thVars, pfVars, mnVars, ptVars>>

\* claimer.py:79: get_all_books_data(api_client) is called
ClCatalogCall ==
    /\ clPc = "catalog_call"
    /\ CatInvoke
    /\ clPc' = "catalog"
    /\ UNCHANGED <<offer, clNOffers, userId, productData, clOwned, clSolution, clStatus, clOutcome, clErr, clLog>>
    /\ UNCHANGED <<apiVars, calls, caVars>>
    /\ UNCHANGED dlVars
    /\ UNCHANGED <<thVars, pfVars, mnVars, ptVars>>

\* claimer.py:79-84: the ownership check; an owned product is returned at once,
\* otherwise solve_recaptcha is called.  claimer.py:13 imports a module-level
\* solve_recaptcha(key, url, site_key); the call is modelled as
\* Anticaptcha(key).solve_recaptcha(url, site_key), the way
\* packtPublishingFreeEbook.py:144-145 makes it.
ClGotCatalog ==
    /\ clPc = "catalog"
    /\ CatTake
    /\ \/ /\ catPc = "raised"
          /\ ClRaise(catErr)
          /\ UNCHANGED <<clOwned, clLog, caVars>>
       \/ /\ catPc = "done"
          /\ CatalogCheck(catResult, offer.productId) = "TypeError"
          /\ ClRaise("TypeError")
          /\ UNCHANGED <<clOwned, clLog, caVars>>
       \/ /\ catPc = "done"
          /\ CatalogCheck(catResult, offer.productId) = "yes"
          /\ clOwned' = "yes"
          /\ IF TitleForLog(productData) # ""
               THEN ClRaise(TitleForLog(productData)) /\ clLog' = clLog
               ELSE ClReturn /\ clLog' = Append(clLog, LogLine("info", "already_claimed", -1))
          /\ UNCHANGED caVars
       \/ /\ catPc = "done"
          /\ CatalogCheck(catResult, offer.productId) = "no"
          /\ clOwned' = "no"
          /\ clLog' = Append(clLog, LogLine("info", "solving", -1))
          /\ CaStart
          /\ clPc' = "captcha"
          /\ UNCHANGED <<clOutcome, clErr>>
    /\ UNCHANGED <<offer, clNOffers, userId, productData, clSolution, clStatus>>
    /\ UNCHANGED <<apiVars, calls>>
    /\ UNCHANGED dlVars
    /\ UNCHANGED <<thVars, pfVars, mnVars, ptVars>>

\* claimer.py:84-89: the solution arrives and the claim PUT is made, or the
\* AnticaptchaException leaves claim_product
ClGotSolution ==
    /\ clPc = "captcha"
    /\ CaTake
    /\ \/ /\ caPc = "raised"
          /\ ClRaise("AnticaptchaException")
          /\ UNCHANGED <<clSolution, apiVars, calls>>
       \/ /\ caPc = "done"
          /\ clSolution' = caSolution
          /\ ApiInvoke(ClaimRequest(offer.id, caSolution))
          /\ calls' = Append(calls, ClaimRequest(offer.id, caSolution))
          /\ clPc' = "claim"
          /\ UNCHANGED <<clOutcome, clErr>>
    /\ UNCHANGED <<offer, clNOffers, userId, productData, clOwned, clStatus, clLog>>
    /\ UNCHANGED catVars
    /\ UNCHANGED dlVars
    /\ UNCHANGED <<thVars, pfVars, mnVars, ptVars>>

\* how the claim response is logged
ClaimLog(status) ==
    CASE status = 200 -> LogLine("info", "grabbed", -1)
      [] status = 409 -> LogLine("info", "already_claimed", -1)
      [] OTHER        -> LogLine("error", "claim_failed", -1)

\* claimer.py:91-98: the claim response is logged and product_data returned
ClGotClaim ==
    /\ clPc = "claim"
    /\ ApiTake
    /\ \/ /\ apiPc = "raised"
          /\ ClRaise("ConnectionError")
          /\ UNCHANGED <<clStatus, clLog>>
       \/ /\ apiPc = "done"
          /\ clStatus' = apiResp
          /\ IF apiResp \in {200, 409} /\ TitleForLog(productData) # ""
               THEN ClRaise(TitleForLog(productData)) /\ clLog' = clLog
               ELSE ClReturn /\ clLog' = Append(clLog, ClaimLog(apiResp))
    /\ UNCHANGED <<offer, clNOffers, userId, productData, clOwned, clSolution>>
    /\ UNCHANGED <<catVars, calls, caVars>>
    /\ UNCHANGED dlVars
    /\ UNCHANGED <<thVars, pfVars, mnVars, ptVars>>

ClStep ==
    \/ ClOffersCall
    \/ ClGotOffers
    \/ ClUserCall
    \/ ClGotUser
    \/ ClSummaryCall
    \/ ClGotSummary
    \/ ClCatalogCall
    \/ ClGotCatalog
    \/ ClGotSolution
    \/ ClGotClaim

----------------------------------------------------------------------------
(* get_product_download_urls and download_products *)

\* the file types of the upstream, in the order its fileTypes list names them
FormatOrder == <<"pdf", "video", "code">>

Formats == {FormatOrder[i] : i \in 1..Len(FormatOrder)}

\* downloader.py:23-25: slugify(title, separator='_', lowercase=False)
Slug(title) ==
    CASE title = "Learning Python" -> "Learning_Python"
      [] title = "Mastering Go"    -> "Mastering_Go"
      [] OTHER                     -> "untitled"

\* downloader.py:52
Extension(format) == IF format \in {"video", "code"} THEN "zip" ELSE format

\* downloader.py:55-60: target_download_path, relative to download_directory
TargetDir(title, intoFolder) == IF intoFolder THEN Slug(title) ELSE ""

\* downloader.py:61
FullFilePath(title, format, intoFolder) ==
    [dir |-> TargetDir(title, intoFolder), name |-> Slug(title), ext |-> Extension(format)]

\* downloader.py:62
TempFilePath(title, intoFolder) ==
    [dir |-> TargetDir(title, intoFolder), name |-> "download", ext |-> "tmp"]

\* a path that is not that of a temporary file
IsFinalPath(path) == ~(path.name = "download" /\ path.ext = "tmp")

\* what is known of a path: "unknown" while download_products has neither looked
\* at it nor written it, "absent", "old" for a file that was there before the
\* call, "part" for a file that holds some chunks of a body, "whole" for a file
\* that holds a body up to the end of its stream
Contents(d, path) == IF path \in DOMAIN d THEN d[path] ELSE "unknown"

Put(d, path, content) ==
    [q \in DOMAIN d \cup {path} |-> IF q = path THEN content ELSE d[q]]

\* the mutant of IsFile: a file written during this call is not seen
IsFile_OnlyOld(content) == content = "old"

\* os.path.isfile of a path whose contents are known
IsFile(content) == content \in {"old", "part", "whole"}

\* the mutant of Selected: the availability of the video is not looked at
Selected_VideoRequested(format, urls, formats) ==
    format \in formats /\ ~(format = "code" /\ "video" \in formats)

\* downloader.py:51
Selected(format, urls, formats) ==
    format \in formats /\ ~(format = "code" /\ "video" \in urls /\ "video" \in formats)

\* the mutant of UrlsOnStatus: the status of the lookup is not looked at
UrlsOnStatus_Any(status, types) == types

\* downloader.py:32-39: the formats of the mapping get_product_download_urls returns
UrlsOnStatus(status, types) == IF status = 200 THEN types ELSE {}

\* the mutant of WritePath: the chunks are written to the destination itself
WritePath_Final(temp, full) == full

\* downloader.py:77: the file the chunks are written to
WritePath(temp, full) == temp

\* the mutant of Cleanup: the temporary file is left where it is
Cleanup_Nothing(d, temp) == d

\* downloader.py:89-91: the finally clause
Cleanup(d, temp) == Put(d, temp, "absent")

\* the mutant of Caught: only the exception download_products raises itself
Caught_OnlyOwn(exc) == exc = "RequestException"

\* downloader.py:105: except Exception
Caught(exc) == exc \in {"RequestException", "ConnectionError", "ValueError",
                        "MissingSchema", "TypeError", "OSError"}

\* the mutant of CountAfter: every destination dealt with is counted
CountAfter_Always(outcome, n) == n + 1

\* downloader.py:100: nr_of_books_downloaded after one format was dealt with
CountAfter(outcome, n) == IF outcome = "ok" THEN n + 1 ELSE n

\* a line of the log of download_products: its level and what it tells
DlLogLine(level, what) == [level |-> level, what |-> what]

\* a function without a return statement returns None
NoValue == [none |-> TRUE, n |-> 0]

\* downloader.py:44-107: download_products has no return statement
ReturnValue(count) == NoValue

\* the bodies the file types lookup can carry: data[0].fileTypes, or anything else
TypesBodies ==
    {[kind |-> "types", fmts |-> F] : F \in SUBSET Formats}
    \cup {[kind |-> "malformed", fmts |-> {}]}

\* the bodies the indirection request can carry: a data field with the signed
\* url, an object without data, a body json() cannot parse
IndirectBodies == {"url", "no_data", "unparsable"}

TypesRequest(productId) ==
    [m |-> "get", url |-> "file_types", arg |-> productId, body |-> ""]

IndirectRequest(productId, format) ==
    [m |-> "get", url |-> "file_download", arg |-> productId, body |-> format]

FileRequest(productId, format) ==
    [m |-> "get", url |-> "signed_file", arg |-> productId, body |-> format]

\* the format the inner loop is at
CurFormat == FormatOrder[dlFmt]

CurFull == FullFilePath(TitleOf(dlBook), CurFormat, dlIntoFolder)

CurTemp == TempFilePath(TitleOf(dlBook), dlIntoFolder)

DlInit ==
    /\ dlPc = "idle"
    /\ dlFormats = {}
    /\ dlIntoFolder = FALSE
    /\ dlNBooks = 0
    /\ dlBook = 0
    /\ dlUrls = {}
    /\ dlFmt = 1
    /\ disk = <<>>
    /\ dlWritten = 0
    /\ dlCount = 0
    /\ dlLogged = DlLogLine("", "")
    /\ dlFinal = -1
    /\ dlReturn = [none |-> FALSE, n |-> -1]
    /\ dlErr = ""

\* download_products is called: nr_of_books_downloaded = 0
DlInvoke(formats, intoFolder) ==
    /\ dlPc = "idle"
    /\ dlPc' = "loop"
    /\ dlFormats' = formats
    /\ dlIntoFolder' = intoFolder
    /\ UNCHANGED <<dlNBooks, dlBook, dlUrls, dlFmt, disk, dlWritten, dlCount,
                   dlLogged, dlFinal, dlReturn, dlErr>>

\* downloader.py:48-49, 31: the next book of product_list and its lookup
DlNextBook ==
    /\ dlPc = "loop"
    /\ dlNBooks < MaxProducts
    /\ \E id \in 1..MaxId :
          /\ dlBook' = id
          /\ ApiInvoke(TypesRequest(id))
    /\ dlNBooks' = dlNBooks + 1
    /\ dlPc' = "types"
    /\ UNCHANGED <<dlFormats, dlIntoFolder, dlUrls, dlFmt, disk, dlWritten, dlCount,
                   dlLogged, dlFinal, dlReturn, dlErr>>
    /\ UNCHANGED <<catVars, clVars, calls, caVars>>
    /\ UNCHANGED <<thVars, pfVars, mnVars, ptVars>>

\* downloader.py:107: product_list is exhausted, the count is logged
DlFinish ==
    /\ dlPc = "loop"
    /\ dlPc' = "done"
    /\ dlFinal' = dlCount
    /\ dlLogged' = DlLogLine("info", "total")
    /\ dlReturn' = ReturnValue(dlCount)
    /\ UNCHANGED <<dlFormats, dlIntoFolder, dlNBooks, dlBook, dlUrls, dlFmt, disk,
                   dlWritten, dlCount, dlErr>>
    /\ UNCHANGED <<apiVars, catVars, clVars, calls, caVars>>
    /\ UNCHANGED <<thVars, pfVars, mnVars, ptVars>>

\* downloader.py:40-41 and 49: PacktConnectionError leaves get_product_download_urls
\* and, the call being outside any try, download_products
DlLookupRaises ==
    /\ dlPc' = "raised"
    /\ dlErr' = "PacktConnectionError"
    /\ UNCHANGED <<dlUrls, dlFmt, dlLogged>>

\* downloader.py:31-41: what get_product_download_urls makes of the response
DlGotTypes ==
    /\ dlPc = "types"
    /\ ApiTake
    /\ \/ /\ apiPc = "raised"
          /\ DlLookupRaises
       \/ /\ apiPc = "done"
          /\ \E b \in TypesBodies :
                IF apiResp = 200 /\ b.kind = "malformed"
                  THEN DlLookupRaises
                  ELSE /\ dlUrls' = UrlsOnStatus(apiResp, b.fmts)
                       /\ dlFmt' = 1
                       /\ dlPc' = "fmt"
                       /\ dlErr' = dlErr
                       /\ dlLogged' = IF apiResp = 200
                                         THEN dlLogged
                                         ELSE DlLogLine("info", "no_urls")
    /\ UNCHANGED <<dlFormats, dlIntoFolder, dlNBooks, dlBook, disk, dlWritten, dlCount,
                   dlFinal, dlReturn>>
    /\ UNCHANGED <<catVars, clVars, calls, caVars>>
    /\ UNCHANGED <<thVars, pfVars, mnVars, ptVars>>

\* downloader.py:50: download_urls has no further item
DlBookDone ==
    /\ dlPc = "fmt"
    /\ dlFmt > Len(FormatOrder)
    /\ dlPc' = "loop"
    /\ dlUrls' = {}
    /\ dlFmt' = 1
    /\ UNCHANGED <<dlFormats, dlIntoFolder, dlNBooks, dlBook, disk,
                   dlWritten, dlCount, dlLogged, dlFinal, dlReturn, dlErr>>
    /\ UNCHANGED <<apiVars, catVars, clVars, calls, caVars>>
    /\ UNCHANGED <<thVars, pfVars, mnVars, ptVars>>

\* downloader.py:50-51: a format that is not in download_urls or not selected
DlSkipFormat ==
    /\ dlPc = "fmt"
    /\ dlFmt <= Len(FormatOrder)
    /\ ~(CurFormat \in dlUrls /\ Selected(CurFormat, dlUrls, dlFormats))
    /\ dlFmt' = dlFmt + 1
    /\ UNCHANGED <<dlPc, dlFormats, dlIntoFolder, dlNBooks, dlBook, dlUrls, disk,
                   dlWritten, dlCount, dlLogged, dlFinal, dlReturn, dlErr>>
    /\ UNCHANGED <<apiVars, catVars, clVars, calls, caVars>>
    /\ UNCHANGED <<thVars, pfVars, mnVars, ptVars>>

\* downloader.py:55-58: the folders made or found under download_directory are
\* those of the destinations looked at
Dirs(d) == {path.dir : path \in DOMAIN d} \ {""}

\* downloader.py:63: os.path.isfile(full_file_path) may find the file; a path
\* not yet known is found to hold an old file or none
MayExist ==
    IF CurFull \in DOMAIN disk THEN IsFile(disk[CurFull]) ELSE TRUE

MayBeAbsent ==
    IF CurFull \in DOMAIN disk THEN ~IsFile(disk[CurFull]) ELSE TRUE

\* downloader.py:52-64: the destination exists already
DlExists ==
    /\ dlPc = "fmt"
    /\ dlFmt <= Len(FormatOrder)
    /\ CurFormat \in dlUrls /\ Selected(CurFormat, dlUrls, dlFormats)
    /\ MayExist
    /\ disk' = IF CurFull \in DOMAIN disk THEN disk ELSE Put(disk, CurFull, "old")
    /\ dlLogged' = DlLogLine("info", "exists")
    /\ dlCount' = CountAfter("exists", dlCount)
    /\ dlFmt' = dlFmt + 1
    /\ UNCHANGED <<dlPc, dlFormats, dlIntoFolder, dlNBooks, dlBook, dlUrls, dlWritten,
                   dlFinal, dlReturn, dlErr>>
    /\ UNCHANGED <<apiVars, catVars, clVars, calls, caVars>>
    /\ UNCHANGED <<thVars, pfVars, mnVars, ptVars>>

\* downloader.py:52-73: the destination does not exist, the indirection request
DlStart ==
    /\ dlPc = "fmt"
    /\ dlFmt <= Len(FormatOrder)
    /\ CurFormat \in dlUrls /\ Selected(CurFormat, dlUrls, dlFormats)
    /\ MayBeAbsent
    /\ disk' = Put(disk, CurFull, "absent")
    /\ dlLogged' = DlLogLine("info", "downloading")
    /\ ApiInvoke(IndirectRequest(dlBook, CurFormat))
    /\ dlPc' = "indirect"
    /\ UNCHANGED <<dlFormats, dlIntoFolder, dlNBooks, dlBook, dlUrls, dlFmt, dlWritten,
                   dlCount, dlFinal, dlReturn, dlErr>>
    /\ UNCHANGED <<catVars, clVars, calls, caVars>>
    /\ UNCHANGED <<thVars, pfVars, mnVars, ptVars>>

\* downloader.py:105-106: an exception of the download of one format
DlFail(kind, exc) ==
    /\ dlCount' = CountAfter(kind, dlCount)
    /\ dlWritten' = 0
    /\ IF Caught(exc)
         THEN /\ dlLogged' = DlLogLine("error", "failed")
              /\ dlFmt' = dlFmt + 1
              /\ dlPc' = "fmt"
              /\ dlErr' = dlErr
         ELSE /\ dlPc' = "raised"
              /\ dlErr' = exc
              /\ UNCHANGED <<dlFmt, dlLogged>>

\* downloader.py:73: the response of the indirection request, whose status is
\* not looked at
DlGotIndirect ==
    /\ dlPc = "indirect"
    /\ ApiTake
    /\ \/ /\ apiPc = "raised"
          /\ DlFail("failed_indirect", "ConnectionError")
       \/ /\ apiPc = "done"
          /\ \E b \in IndirectBodies :
                CASE b = "unparsable" -> DlFail("failed_indirect", "ValueError")
                  [] b = "no_data"    -> \* api_client.get(None)
                                         DlFail("failed_indirect", "MissingSchema")
                  [] OTHER -> /\ dlPc' = "url"
                              /\ UNCHANGED <<dlFmt, dlWritten, dlCount, dlLogged, dlErr>>
    /\ UNCHANGED <<dlFormats, dlIntoFolder, dlNBooks, dlBook, dlUrls, disk,
                   dlFinal, dlReturn>>
    /\ UNCHANGED <<catVars, clVars, calls, caVars>>
    /\ UNCHANGED <<thVars, pfVars, mnVars, ptVars>>

\* downloader.py:74: the request of the file itself
DlFileCall ==
    /\ dlPc = "url"
    /\ ApiInvoke(FileRequest(dlBook, CurFormat))
    /\ dlPc' = "fetch"
    /\ UNCHANGED <<dlFormats, dlIntoFolder, dlNBooks, dlBook, dlUrls, dlFmt, disk,
                   dlWritten, dlCount, dlLogged, dlFinal, dlReturn, dlErr>>
    /\ UNCHANGED <<catVars, clVars, calls, caVars>>
    /\ UNCHANGED <<thVars, pfVars, mnVars, ptVars>>

\* downloader.py:75-77, 101-104: the status of the file response; open(temp_file_path, 'wb')
DlGotFile ==
    /\ dlPc = "fetch"
    /\ ApiTake
    /\ \/ /\ apiPc = "raised"
          /\ DlFail("failed_fetch", "ConnectionError")
          /\ disk' = disk
       \/ /\ apiPc = "done" /\ apiResp # 200
          /\ DlFail("failed_fetch", "RequestException")
          /\ disk' = disk
       \/ /\ apiPc = "done" /\ apiResp = 200
          /\ \/ \* the file is opened: it is there and empty
                /\ disk' = Put(disk, WritePath(CurTemp, CurFull), "part")
                /\ dlPc' = "stream"
                /\ dlWritten' = 0
                /\ UNCHANGED <<dlFmt, dlCount, dlLogged, dlErr>>
             \/ \* open raises
                /\ DlFail("failed_open", "OSError")
                /\ disk' = Cleanup(disk, CurTemp)
    /\ UNCHANGED <<dlFormats, dlIntoFolder, dlNBooks, dlBook, dlUrls, dlFinal, dlReturn>>
    /\ UNCHANGED <<catVars, clVars, calls, caVars>>
    /\ UNCHANGED <<thVars, pfVars, mnVars, ptVars>>

\* downloader.py:80-85: one more chunk is written
DlChunk ==
    /\ dlPc = "stream"
    /\ dlWritten < MaxChunks
    /\ dlWritten' = dlWritten + 1
    /\ disk' = Put(disk, WritePath(CurTemp, CurFull), "part")
    /\ UNCHANGED <<dlPc, dlFormats, dlIntoFolder, dlNBooks, dlBook, dlUrls, dlFmt,
                   dlCount, dlLogged, dlFinal, dlReturn, dlErr>>
    /\ UNCHANGED <<apiVars, catVars, clVars, calls, caVars>>
    /\ UNCHANGED <<thVars, pfVars, mnVars, ptVars>>

\* downloader.py:78-85, 89-91: reading the length or the next chunk raises
DlStreamFails ==
    /\ dlPc = "stream"
    /\ \E exc \in {"TypeError", "ConnectionError"} : DlFail("failed_stream", exc)
    /\ disk' = Cleanup(disk, CurTemp)
    /\ UNCHANGED <<dlFormats, dlIntoFolder, dlNBooks, dlBook, dlUrls, dlFinal, dlReturn>>
    /\ UNCHANGED <<apiVars, catVars, clVars, calls, caVars>>
    /\ UNCHANGED <<thVars, pfVars, mnVars, ptVars>>

\* downloader.py:88-100: the stream has ended, the file is closed and renamed
DlStreamEnds ==
    /\ dlPc = "stream"
    /\ \/ /\ Contents(disk, CurTemp) = "part"
          /\ disk' = Cleanup(Put(Put(disk, CurTemp, "absent"), CurFull, "whole"), CurTemp)
          /\ dlCount' = CountAfter("ok", dlCount)
          /\ dlLogged' = DlLogLine("success", "downloaded")
          /\ dlFmt' = dlFmt + 1
          /\ dlPc' = "fmt"
          /\ dlWritten' = 0
          /\ dlErr' = dlErr
       \/ \* os.rename raises
          /\ DlFail("failed_rename", "OSError")
          /\ disk' = Cleanup(disk, CurTemp)
    /\ UNCHANGED <<dlFormats, dlIntoFolder, dlNBooks, dlBook, dlUrls, dlFinal, dlReturn>>
    /\ UNCHANGED <<apiVars, catVars, clVars, calls, caVars>>
    /\ UNCHANGED <<thVars, pfVars, mnVars, ptVars>>

\* the process is killed while the body is streamed
DlCrash ==
    /\ dlPc = "stream"
    /\ dlPc' = "crashed"
    /\ UNCHANGED <<dlFormats, dlIntoFolder, dlNBooks, dlBook, dlUrls, dlFmt, disk,
                   dlWritten, dlCount, dlLogged, dlFinal, dlReturn, dlErr>>
    /\ UNCHANGED <<apiVars, catVars, clVars, calls, caVars>>
    /\ UNCHANGED <<thVars, pfVars, mnVars, ptVars>>

DlStep ==
    \/ DlNextBook
    \/ DlFinish
    \/ DlGotTypes
    \/ DlBookDone
    \/ DlSkipFormat
    \/ DlExists
    \/ DlStart
    \/ DlGotIndirect
    \/ DlFileCall
    \/ DlGotFile
    \/ DlChunk
    \/ DlStreamFails
    \/ DlStreamEnds
    \/ DlCrash

----------------------------------------------------------------------------
(* PacktAPIClient.request called from two threads on one client *)

Threads == {1, 2}

\* a thread that has not called request(): nothing sent (auth -2), no status
NoCall == [pc |-> "idle", auth |-> -2, status |-> 0, fetched |-> 0]

ThInit == thr = [t \in Threads |-> NoCall]

\* the thread calls request()
ThCall(t) ==
    /\ thr[t] = NoCall
    /\ thr' = [thr EXCEPT ![t].pc = "send"]
    /\ UNCHANGED <<apiVars, catVars, clVars, calls, caVars, dlVars, ptVars, pfVars, mnVars>>

\* api.py:44-45, 49-50: the first session.request and the branch on its status
ThSend(t) ==
    /\ thr[t].pc = "send"
    /\ \/ \E s \in Statuses :
             thr' = [thr EXCEPT ![t].auth = SendAuth, ![t].status = s,
                                ![t].pc = IF ShouldRefresh(s) THEN "refresh" ELSE "done"]
       \/ thr' = [thr EXCEPT ![t].auth = SendAuth, ![t].pc = "raised"]
    /\ UNCHANGED <<apiVars, catVars, clVars, calls, caVars, dlVars, ptVars, pfVars, mnVars>>

\* api.py:47 and 32-40: fetch_jwt, which takes no lock and does not look at
\* the header another call may have installed meanwhile
ThFetchJwt(t) ==
    /\ thr[t].pc = "refresh"
    /\ \E o \in LoginOutcomes :
          /\ fetchSerial' = fetchSerial + 1
          /\ hdrAuth' = IF FetchJwtRaises(o) THEN hdrAuth
                        ELSE FetchJwtHeader(o, hdrAuth, fetchSerial + 1)
          /\ thr' = [thr EXCEPT ![t].fetched = @ + 1,
                                ![t].pc = IF FetchJwtRaises(o) THEN "raised" ELSE "resend"]
    /\ UNCHANGED <<apiPc, apiReq, reqSent, reqStatuses, reqFetches, apiResp>>
    /\ UNCHANGED <<catVars, clVars, calls, caVars, dlVars, ptVars, pfVars, mnVars>>

\* api.py:48: the second session.request, returned whatever its status
ThResend(t) ==
    /\ thr[t].pc = "resend"
    /\ \/ \E s \in Statuses : thr' = [thr EXCEPT ![t].status = s, ![t].pc = "done"]
       \/ thr' = [thr EXCEPT ![t].pc = "raised"]
    /\ UNCHANGED <<apiVars, catVars, clVars, calls, caVars, dlVars, ptVars, pfVars, mnVars>>

ThStep == \E t \in Threads : ThCall(t) \/ ThSend(t) \/ ThFetchJwt(t) \/ ThResend(t)

----------------------------------------------------------------------------
(* PacktPublishingFreeEbook: login_required, grab_ebook, download_books *)

\* how many operations are called on one object
MaxCalls == 2

\* how many books the list of download_books holds
MaxBooks == 1

\* cfg.download_formats of the configuration the model runs with
CfgFormats == <<"pdf", "code">>

\* packtPublishingFreeEbook.py:295-298
FileType(form) == IF form = "code" THEN "zip" ELSE form

\* packtPublishingFreeEbook.py:302-309: full_file_path, relative to
\* download_folder_path; a title is named by its id
BookFilePath(title, form, intoFolder) ==
    [dir |-> IF intoFolder THEN title ELSE 0, name |-> title, ext |-> FileType(form)]

\* packtPublishingFreeEbook.py:101
NeedsLogin(s) == s = "none"

\* what __create_http_session can meet: the login goes through, a request
\* raises or the login form is missing, the check of the login fails
SessionOutcomes == {"ok", "error", "rejected"}

\* packtPublishingFreeEbook.py:115: self.session is assigned before the login
\* requests are made, whatever comes of them
SessionAfter(outcome) == "open"

\* the exception __create_http_session raises
SessionError(outcome) ==
    CASE outcome = "error"    -> "ConnectionError"
      [] outcome = "rejected" -> "RequestException"
      [] OTHER                -> ""

\* packtPublishingFreeEbook.py:342-343: except Exception around one download
OldCaught(exc) == exc \in {"RequestException", "ConnectionError", "TypeError", "OSError"}

PfCurForm == CfgFormats[pfForm]

PfCurPath == BookFilePath(pfBook, PfCurForm, pfIntoFolder)

PfInit ==
    /\ session = "none"
    /\ loggedIn = FALSE
    /\ nLogins = 0
    /\ nCalls = 0
    /\ pfPc = "idle"
    /\ pfOp = ""
    /\ pfErr = ""
    /\ bookTitle = 0
    /\ pfNotes = {}
    /\ pfTitles = 0
    /\ pfIntoFolder = FALSE
    /\ pfNBooks = 0
    /\ pfBook = 0
    /\ pfUrls = {}
    /\ pfForm = 1
    /\ files = <<>>
    /\ pfCount = 0

\* packtPublishingFreeEbook.py:100-103: login_decorated is entered
PfInvoke(op, titles, intoFolder) ==
    /\ pfPc = "idle"
    /\ nCalls < MaxCalls
    /\ nCalls' = nCalls + 1
    /\ pfPc' = IF NeedsLogin(session) THEN "login" ELSE "body"
    /\ pfOp' = op
    /\ pfTitles' = titles
    /\ pfIntoFolder' = intoFolder
    /\ pfErr' = ""
    /\ pfNotes' = {}
    /\ pfNBooks' = 0
    /\ pfBook' = 0
    /\ pfUrls' = {}
    /\ pfForm' = 1
    /\ pfCount' = 0
    /\ UNCHANGED <<session, loggedIn, nLogins, bookTitle, files>>

\* the operation has returned or raised
PfTake ==
    /\ pfPc \in {"returned", "raised"}
    /\ pfPc' = "idle"
    /\ pfOp' = ""
    /\ UNCHANGED <<session, loggedIn, nLogins, nCalls, pfErr, bookTitle, pfNotes, pfTitles,
                   pfIntoFolder, pfNBooks, pfBook, pfUrls, pfForm, files, pfCount>>

\* an exception leaves the operation
PfRaise(exc) ==
    /\ pfPc' = "raised"
    /\ pfErr' = exc

\* packtPublishingFreeEbook.py:106-129: __create_http_session
PfLogin ==
    /\ pfPc = "login"
    /\ \E o \in SessionOutcomes :
          /\ session' = SessionAfter(o)
          /\ IF o = "ok"
               THEN /\ loggedIn' = TRUE
                    /\ nLogins' = nLogins + 1
                    /\ pfPc' = "body"
                    /\ pfErr' = pfErr
               ELSE /\ PfRaise(SessionError(o))
                    /\ UNCHANGED <<loggedIn, nLogins>>
    /\ UNCHANGED <<nCalls, pfOp, bookTitle, pfNotes, pfTitles, pfIntoFolder, pfNBooks,
                   pfBook, pfUrls, pfForm, files, pfCount>>
    /\ UNCHANGED <<apiVars, catVars, clVars, calls, caVars, dlVars, ptVars, thVars, mnVars>>

\* packtPublishingFreeEbook.py:240-251: the body of grab_ebook up to the test
\* of __exists_book: the offer page, the title, the books of the account
PfGrabPage ==
    /\ pfPc = "body"
    /\ pfOp = "grab"
    /\ \/ \* the page request raises or is not answered with 200
          /\ PfRaise("RequestException")
          /\ UNCHANGED <<bookTitle, pfNotes>>
       \/ \E id \in 1..MaxId :
             /\ bookTitle' = id
             /\ \/ \* get_all_books_data raises
                   /\ PfRaise("PacktConnectionError")
                   /\ pfNotes' = pfNotes
                \/ \* the book is among those of the account
                   /\ pfNotes' = pfNotes \cup {"already_grabbed"}
                   /\ pfPc' = "returned"
                   /\ pfErr' = pfErr
                \/ /\ pfPc' = "claim"
                   /\ UNCHANGED <<pfErr, pfNotes>>
    /\ UNCHANGED <<session, loggedIn, nLogins, nCalls, pfOp, pfTitles, pfIntoFolder, pfNBooks,
                   pfBook, pfUrls, pfForm, files, pfCount>>
    /\ UNCHANGED <<apiVars, catVars, clVars, calls, caVars, dlVars, ptVars, thVars, mnVars>>

\* packtPublishingFreeEbook.py:252-266: the claim, with or without a CAPTCHA
PfClaim ==
    /\ pfPc = "claim"
    /\ \/ /\ pfPc' = "returned"
          /\ pfErr' = pfErr
       \/ \E exc \in {"AnticaptchaException", "RequestException"} : PfRaise(exc)
    /\ UNCHANGED <<session, loggedIn, nLogins, nCalls, pfOp, bookTitle, pfNotes, pfTitles, pfIntoFolder,
                   pfNBooks, pfBook, pfUrls, pfForm, files, pfCount>>
    /\ UNCHANGED <<apiVars, catVars, clVars, calls, caVars, dlVars, ptVars, thVars, mnVars>>

\* packtPublishingFreeEbook.py:276: my_books_data = self.get_all_books_data()
PfBooks ==
    /\ pfPc = "body"
    /\ pfOp = "download"
    /\ \/ PfRaise("PacktConnectionError")
       \/ pfPc' = "loop" /\ pfErr' = pfErr
    /\ UNCHANGED <<session, loggedIn, nLogins, nCalls, pfOp, bookTitle, pfNotes, pfTitles,
                   pfIntoFolder, pfNBooks, pfBook, pfUrls, pfForm, files, pfCount>>
    /\ UNCHANGED <<apiVars, catVars, clVars, calls, caVars, dlVars, ptVars, thVars, mnVars>>

\* packtPublishingFreeEbook.py:281-293: the next book of temp_book_data, which
\* holds the books of the titles asked for
PfNextBook ==
    /\ pfPc = "loop"
    /\ pfNBooks < MaxBooks
    /\ \E id \in (IF pfTitles = 0 THEN 1..MaxId ELSE {pfTitles}) :
          pfBook' = id
    /\ \E urls \in SUBSET {CfgFormats[i] : i \in 1..Len(CfgFormats)} : pfUrls' = urls
    /\ pfNBooks' = pfNBooks + 1
    /\ pfForm' = 1
    /\ pfPc' = "form"
    /\ UNCHANGED <<session, loggedIn, nLogins, nCalls, pfOp, pfErr, bookTitle, pfNotes, pfTitles,
                   pfIntoFolder, files, pfCount>>
    /\ UNCHANGED <<apiVars, catVars, clVars, calls, caVars, dlVars, ptVars, thVars, mnVars>>

\* packtPublishingFreeEbook.py:344: the list is at its end, the count is logged
PfFinish ==
    /\ pfPc = "loop"
    /\ pfPc' = "returned"
    /\ UNCHANGED <<session, loggedIn, nLogins, nCalls, pfOp, pfErr, bookTitle, pfNotes, pfTitles,
                   pfIntoFolder, pfNBooks, pfBook, pfUrls, pfForm, files, pfCount>>
    /\ UNCHANGED <<apiVars, catVars, clVars, calls, caVars, dlVars, ptVars, thVars, mnVars>>

\* packtPublishingFreeEbook.py:293: the formats of the book are through
PfBookDone ==
    /\ pfPc = "form"
    /\ pfForm > Len(CfgFormats)
    /\ pfPc' = "loop"
    /\ pfUrls' = {}
    /\ pfForm' = 1
    /\ UNCHANGED <<session, loggedIn, nLogins, nCalls, pfOp, pfErr, bookTitle, pfNotes, pfTitles,
                   pfIntoFolder, pfNBooks, pfBook, files, pfCount>>
    /\ UNCHANGED <<apiVars, catVars, clVars, calls, caVars, dlVars, ptVars, thVars, mnVars>>

\* packtPublishingFreeEbook.py:294: the book has no url of this format
PfSkipForm ==
    /\ pfPc = "form"
    /\ pfForm <= Len(CfgFormats)
    /\ PfCurForm \notin pfUrls
    /\ pfForm' = pfForm + 1
    /\ UNCHANGED <<session, loggedIn, nLogins, nCalls, pfPc, pfOp, pfErr, bookTitle, pfNotes,
                   pfTitles, pfIntoFolder, pfNBooks, pfBook, pfUrls, files, pfCount>>
    /\ UNCHANGED <<apiVars, catVars, clVars, calls, caVars, dlVars, ptVars, thVars, mnVars>>

\* packtPublishingFreeEbook.py:302-305: os.mkdir, outside the try, raises
PfMkdirFails ==
    /\ pfPc = "form"
    /\ pfForm <= Len(CfgFormats)
    /\ PfCurForm \in pfUrls
    /\ pfIntoFolder
    /\ PfRaise("OSError")
    /\ UNCHANGED <<session, loggedIn, nLogins, nCalls, pfOp, bookTitle, pfNotes, pfTitles,
                   pfIntoFolder, pfNBooks, pfBook, pfUrls, pfForm, files, pfCount>>
    /\ UNCHANGED <<apiVars, catVars, clVars, calls, caVars, dlVars, ptVars, thVars, mnVars>>

\* packtPublishingFreeEbook.py:310-311: os.path.isfile(full_file_path) finds a
\* file; a path not yet known is found to hold an old file or none
PfExists ==
    /\ pfPc = "form"
    /\ pfForm <= Len(CfgFormats)
    /\ PfCurForm \in pfUrls
    /\ IF PfCurPath \in DOMAIN files THEN IsFile(files[PfCurPath]) ELSE TRUE
    /\ files' = IF PfCurPath \in DOMAIN files THEN files ELSE Put(files, PfCurPath, "old")
    /\ pfNotes' = pfNotes \cup {"exists"}
    /\ pfForm' = pfForm + 1
    /\ UNCHANGED <<session, loggedIn, nLogins, nCalls, pfPc, pfOp, pfErr, bookTitle, pfTitles,
                   pfIntoFolder, pfNBooks, pfBook, pfUrls, pfCount>>
    /\ UNCHANGED <<apiVars, catVars, clVars, calls, caVars, dlVars, ptVars, thVars, mnVars>>

\* one download has failed inside the try: the exception is logged and the
\* loop goes on, or it leaves download_books
PfFail(exc) ==
    IF OldCaught(exc)
      THEN /\ pfNotes' = pfNotes \cup {"failed"}
           /\ pfForm' = pfForm + 1
           /\ pfPc' = "form"
           /\ pfErr' = pfErr
      ELSE /\ PfRaise(exc)
           /\ UNCHANGED <<pfNotes, pfForm>>

\* packtPublishingFreeEbook.py:312-320, 338-343: there is no file: the request
\* for it, the test of its status and open(full_file_path, 'wb')
PfStart ==
    /\ pfPc = "form"
    /\ pfForm <= Len(CfgFormats)
    /\ PfCurForm \in pfUrls
    /\ IF PfCurPath \in DOMAIN files THEN ~IsFile(files[PfCurPath]) ELSE TRUE
    /\ \/ \* the request raises, or its status is not 200
          /\ \E exc \in {"ConnectionError", "RequestException"} : PfFail(exc)
          /\ files' = Put(files, PfCurPath, "absent")
       \/ \* open raises
          /\ PfFail("OSError")
          /\ files' = Put(files, PfCurPath, "absent")
       \/ \* the file is opened for writing: it is there and empty
          /\ files' = Put(files, PfCurPath, "part")
          /\ pfPc' = "stream"
          /\ UNCHANGED <<pfErr, pfNotes, pfForm>>
    /\ UNCHANGED <<session, loggedIn, nLogins, nCalls, pfOp, bookTitle, pfTitles, pfIntoFolder,
                   pfNBooks, pfBook, pfUrls, pfCount>>
    /\ UNCHANGED <<apiVars, catVars, clVars, calls, caVars, dlVars, ptVars, thVars, mnVars>>

\* packtPublishingFreeEbook.py:321-330, 342-343: reading the length or a chunk
\* raises; the with block closes the file and leaves it where it is
PfStreamFails ==
    /\ pfPc = "stream"
    /\ \E exc \in {"TypeError", "ConnectionError"} : PfFail(exc)
    /\ UNCHANGED <<session, loggedIn, nLogins, nCalls, pfOp, bookTitle, pfTitles, pfIntoFolder,
                   pfNBooks, pfBook, pfUrls, files, pfCount>>
    /\ UNCHANGED <<apiVars, catVars, clVars, calls, caVars, dlVars, ptVars, thVars, mnVars>>

\* packtPublishingFreeEbook.py:323-337: the chunks are written up to the end of
\* the stream and the file is closed
PfStreamEnds ==
    /\ pfPc = "stream"
    /\ files' = Put(files, PfCurPath, "whole")
    /\ pfCount' = pfCount + 1
    /\ pfForm' = pfForm + 1
    /\ pfPc' = "form"
    /\ UNCHANGED <<session, loggedIn, nLogins, nCalls, pfOp, pfErr, bookTitle, pfNotes, pfTitles,
                   pfIntoFolder, pfNBooks, pfBook, pfUrls>>
    /\ UNCHANGED <<apiVars, catVars, clVars, calls, caVars, dlVars, ptVars, thVars, mnVars>>

PfStep ==
    \/ PfLogin
    \/ PfGrabPage
    \/ PfClaim
    \/ PfBooks
    \/ PfNextBook
    \/ PfFinish
    \/ PfBookDone
    \/ PfSkipForm
    \/ PfMkdirFails
    \/ PfExists
    \/ PfStart
    \/ PfStreamFails
    \/ PfStreamEnds

\* client code that calls grab_ebook or download_books on the object
AnyScriptCall ==
    /\ \/ PfInvoke("grab", 0, FALSE)
       \/ \E t \in 0..MaxId, f \in BOOLEAN : PfInvoke("download", t, f)
    /\ UNCHANGED <<apiVars, catVars, clVars, calls, caVars, dlVars, ptVars, thVars, mnVars>>

\* that client code gets the result, or catches the exception
AnyScriptReturn ==
    /\ PfTake
    /\ UNCHANGED <<apiVars, catVars, clVars, calls, caVars, dlVars, ptVars, thVars, mnVars>>

----------------------------------------------------------------------------
(* __main__ of packtPublishingFreeEbook.py *)

\* packtPublishingFreeEbook.py:359-379: the flags of the command line
Flags == {"grab", "grabl", "grabd", "dall", "sgd", "mail", "status_mail", "folder"}

\* packtPublishingFreeEbook.py:391
WantsGrab(a) == a \cap {"grab", "grabl", "grabd", "sgd", "mail"} # {}

\* packtPublishingFreeEbook.py:396
WantsGrabMail(a) == "status_mail" \in a /\ "mail" \notin a

\* packtPublishingFreeEbook.py:408
WantsDownload(a) == a \cap {"grabd", "dall", "sgd", "mail"} # {}

\* packtPublishingFreeEbook.py:418
WantsSend(a) == a \cap {"sgd", "mail"} # {}

\* packtPublishingFreeEbook.py:409-415: the titles handed to download_books
TitlesArg(a, title) == IF "dall" \in a THEN 0 ELSE title

\* the mutant of ExitStatus: the handler logs the exception and falls through
ExitStatus_HandlerFallsThrough(outcome) == IF outcome = "unhandled" THEN 1 ELSE 0

\* packtPublishingFreeEbook.py:445-455: the end of the try block is the end of
\* the script (0), the handler ends with sys.exit(2), an exception raised
\* inside the handler ends the interpreter with 1
ExitStatus(outcome) ==
    CASE outcome = "ok"      -> 0
      [] outcome = "handled" -> 2
      [] OTHER               -> 1

MnInit ==
    /\ mnPc = "start"
    /\ args = {}
    /\ mnStages = <<>>
    /\ mnEscaped = ""
    /\ mnSkipped = {}
    /\ mnSuccess = FALSE
    /\ exitCode = -1

\* packtPublishingFreeEbook.py:446: an exception reaches the except clause
MainRaise(stage) ==
    /\ mnEscaped' = stage
    /\ mnPc' = "handler"

\* packtPublishingFreeEbook.py:382-384: parser.parse_args()
MainStart ==
    /\ mnPc = "start"
    /\ \E a \in SUBSET Flags : args' = a
    /\ mnPc' = "config"
    /\ UNCHANGED <<mnStages, mnEscaped, mnSkipped, mnSuccess, exitCode>>
    /\ UNCHANGED <<apiVars, catVars, clVars, calls, caVars, dlVars, ptVars, thVars, pfVars>>

\* packtPublishingFreeEbook.py:387-388: the configuration is read
MainConfig ==
    /\ mnPc = "config"
    /\ mnStages' = Append(mnStages, "config")
    /\ \/ MainRaise("config")
       \/ mnPc' = "grab" /\ mnEscaped' = mnEscaped
    /\ UNCHANGED <<args, mnSkipped, mnSuccess, exitCode>>
    /\ UNCHANGED <<apiVars, catVars, clVars, calls, caVars, dlVars, ptVars, thVars, pfVars>>

\* packtPublishingFreeEbook.py:391-392: grab_ebook is called when asked for
MainGrabCall ==
    /\ mnPc = "grab"
    /\ IF WantsGrab(args)
         THEN /\ PfInvoke("grab", 0, FALSE)
              /\ mnStages' = Append(mnStages, "grab")
              /\ mnPc' = "grabbing"
         ELSE /\ mnPc' = "download"
              /\ UNCHANGED <<mnStages, pfVars>>
    /\ UNCHANGED <<args, mnEscaped, mnSkipped, mnSuccess, exitCode>>
    /\ UNCHANGED <<apiVars, catVars, clVars, calls, caVars, dlVars, ptVars, thVars>>

\* packtPublishingFreeEbook.py:392-405: grab_ebook has returned or raised; the
\* mail about the grab is sent when asked for
MainGrabbed ==
    /\ mnPc = "grabbing"
    /\ PfTake
    /\ \/ /\ pfPc = "raised"
          /\ MainRaise("grab")
          /\ mnSkipped' = mnSkipped
       \/ /\ pfPc = "returned"
          /\ mnSkipped' = mnSkipped \cup pfNotes
          /\ \/ mnPc' = "download" /\ mnEscaped' = mnEscaped
             \/ \* MailBook or send_info raises
                WantsGrabMail(args) /\ MainRaise("grab")
    /\ UNCHANGED <<args, mnStages, mnSuccess, exitCode>>
    /\ UNCHANGED <<apiVars, catVars, clVars, calls, caVars, dlVars, ptVars, thVars>>

\* packtPublishingFreeEbook.py:408-415: download_books is called when asked for
MainDownloadCall ==
    /\ mnPc = "download"
    /\ IF WantsDownload(args)
         THEN /\ PfInvoke("download", TitlesArg(args, bookTitle), "folder" \in args)
              /\ mnStages' = Append(mnStages, "download")
              /\ mnPc' = "downloading"
         ELSE /\ mnPc' = "send"
              /\ UNCHANGED <<mnStages, pfVars>>
    /\ UNCHANGED <<args, mnEscaped, mnSkipped, mnSuccess, exitCode>>
    /\ UNCHANGED <<apiVars, catVars, clVars, calls, caVars, dlVars, ptVars, thVars>>

\* packtPublishingFreeEbook.py:410-415: download_books has returned or raised
MainDownloaded ==
    /\ mnPc = "downloading"
    /\ PfTake
    /\ \/ /\ pfPc = "raised"
          /\ MainRaise("download")
          /\ mnSkipped' = mnSkipped
       \/ /\ pfPc = "returned"
          /\ mnSkipped' = mnSkipped \cup pfNotes
          /\ mnPc' = "send"
          /\ mnEscaped' = mnEscaped
    /\ UNCHANGED <<args, mnStages, mnSuccess, exitCode>>
    /\ UNCHANGED <<apiVars, catVars, clVars, calls, caVars, dlVars, ptVars, thVars>>

\* packtPublishingFreeEbook.py:418-443: the files of the grabbed title are sent
\* to Google Drive or by mail and removed, when asked for
MainSend ==
    /\ mnPc = "send"
    /\ IF WantsSend(args)
         THEN /\ mnStages' = Append(mnStages, "send")
              /\ \/ /\ MainRaise("send")
                    /\ files' = files
                 \/ /\ mnPc' = "success"
                    /\ mnEscaped' = mnEscaped
                    /\ files' = [p \in DOMAIN files |->
                                   IF p.name = bookTitle /\ p.dir = 0 /\ IsFile(files[p])
                                     THEN "absent" ELSE files[p]]
         ELSE /\ mnPc' = "success"
              /\ UNCHANGED <<mnStages, mnEscaped, files>>
    /\ UNCHANGED <<args, mnSkipped, mnSuccess, exitCode>>
    /\ UNCHANGED <<session, loggedIn, nLogins, nCalls, pfPc, pfOp, pfErr, bookTitle, pfNotes,
                   pfTitles, pfIntoFolder, pfNBooks, pfBook, pfUrls, pfForm, pfCount>>
    /\ UNCHANGED <<apiVars, catVars, clVars, calls, caVars, dlVars, ptVars, thVars>>

\* packtPublishingFreeEbook.py:445: the success message; the script ends
MainSuccess ==
    /\ mnPc = "success"
    /\ mnSuccess' = TRUE
    /\ exitCode' = ExitStatus("ok")
    /\ mnPc' = "exited"
    /\ UNCHANGED <<args, mnStages, mnEscaped, mnSkipped>>
    /\ UNCHANGED <<apiVars, catVars, clVars, calls, caVars, dlVars, ptVars, thVars, pfVars>>

\* packtPublishingFreeEbook.py:446-455: the exception is logged, the failure
\* mail sent when asked for, and the script exits
MainHandler ==
    /\ mnPc = "handler"
    /\ \/ exitCode' = ExitStatus("handled")
       \/ \* MailBook or send_info raises inside the handler
          "status_mail" \in args /\ exitCode' = ExitStatus("unhandled")
    /\ mnPc' = "exited"
    /\ UNCHANGED <<args, mnStages, mnEscaped, mnSkipped, mnSuccess>>
    /\ UNCHANGED <<apiVars, catVars, clVars, calls, caVars, dlVars, ptVars, thVars, pfVars>>

MainStep ==
    \/ MainStart
    \/ MainConfig
    \/ MainGrabCall
    \/ MainGrabbed
    \/ MainDownloadCall
    \/ MainDownloaded
    \/ MainSend
    \/ MainSuccess
    \/ MainHandler

----------------------------------------------------------------------------
(* The destination paths of download_products, over calls on one directory *)

NoSkip == [some |-> FALSE, for |-> <<0, "">>, owner |-> <<0, "">>]

PtInit ==
    /\ ptFormats = {}
    /\ ptIntoFolder = FALSE
    /\ ptOwner = <<>>
    /\ ptSkip = NoSkip

\* downloader.py:44: download_products is called on the directory once more
PtCall ==
    /\ \E formats \in SUBSET Formats, f \in BOOLEAN :
          /\ ptFormats' = formats
          /\ ptIntoFolder' = f
    /\ UNCHANGED <<ptOwner, ptSkip>>
    /\ UNCHANGED <<apiVars, catVars, clVars, calls, caVars, dlVars, thVars, pfVars, mnVars>>

\* downloader.py:48-64, 88: a format of a product is selected; its destination
\* holds a file, which is taken as this download's, or holds none and the
\* download is renamed to it
PtVisit ==
    /\ \E id \in 1..MaxId, urls \in SUBSET Formats, format \in Formats :
          /\ format \in urls
          /\ Selected(format, urls, ptFormats)
          /\ LET path == FullFilePath(TitleOf(id), format, ptIntoFolder)
             IN  IF path \in DOMAIN ptOwner
                   THEN /\ ptSkip' = [some |-> TRUE, for |-> <<id, format>>,
                                      owner |-> ptOwner[path]]
                        /\ ptOwner' = ptOwner
                   ELSE /\ ptOwner' = Put(ptOwner, path, <<id, format>>)
                        /\ ptSkip' = ptSkip
    /\ UNCHANGED <<ptFormats, ptIntoFolder>>
    /\ UNCHANGED <<apiVars, catVars, clVars, calls, caVars, dlVars, thVars, pfVars, mnVars>>

----------------------------------------------------------------------------
(* Specifications *)

Init ==
    /\ ApiInit
    /\ CatInit
    /\ ClInit
    /\ CaInit
    /\ DlInit
    /\ calls = <<>>
    /\ ThInit
    /\ PfInit
    /\ MnInit
    /\ PtInit

\* a client whose constructor has fetched a token
ApiReady ==
    /\ apiPc = "idle"
    /\ apiReq = NoReq
    /\ reqSent = <<>>
    /\ reqStatuses = <<>>
    /\ reqFetches = 0
    /\ apiResp = 0
    /\ hdrAuth = 1
    /\ fetchSerial = 1

\* download_products is handed a client that has logged in
InitDownload ==
    /\ ApiReady
    /\ CatInit
    /\ ClInit
    /\ CaInit
    /\ DlInit
    /\ calls = <<>>
    /\ ThInit
    /\ PfInit
    /\ MnInit
    /\ PtInit

\* client code that calls api_client.get/put with any request
AnyRequest ==
    /\ \E m \in Methods, u \in Urls :
          ApiInvoke([m |-> m, url |-> u, arg |-> -1, body |-> ""])
    /\ UNCHANGED <<catVars, clVars, calls, caVars>>
    /\ UNCHANGED dlVars
    /\ UNCHANGED <<thVars, pfVars, mnVars, ptVars>>

\* that client code receives the response
AnyRequestReturns ==
    /\ ApiTake
    /\ UNCHANGED <<catVars, clVars, calls, caVars>>
    /\ UNCHANGED dlVars
    /\ UNCHANGED <<thVars, pfVars, mnVars, ptVars>>

\* client code that calls get_all_books_data
AnyCatalogCall ==
    /\ apiPc = "idle"
    /\ CatInvoke
    /\ UNCHANGED <<apiVars, clVars, calls, caVars>>
    /\ UNCHANGED dlVars
    /\ UNCHANGED <<thVars, pfVars, mnVars, ptVars>>

\* client code that calls solve_recaptcha
AnySolveCall ==
    /\ CaStart
    /\ UNCHANGED <<apiVars, catVars, clVars, calls>>
    /\ UNCHANGED dlVars
    /\ UNCHANGED <<thVars, pfVars, mnVars, ptVars>>

\* client code that calls download_products with any formats
AnyDownloadCall ==
    /\ apiPc = "idle"
    /\ \E F \in SUBSET Formats, f \in BOOLEAN : DlInvoke(F, f)
    /\ UNCHANGED <<apiVars, catVars, clVars, calls, caVars>>
    /\ UNCHANGED <<thVars, pfVars, mnVars, ptVars>>

\* PacktAPIClient under arbitrary requests
NextApi == ApiStep \/ AnyRequest \/ AnyRequestReturns

SpecApi == Init /\ [][NextApi]_vars

\* one call of get_all_books_data
NextCatalog == ApiStep \/ AnyCatalogCall \/ CatStep

SpecCatalog == Init /\ [][NextCatalog]_vars

\* one call of solve_recaptcha
NextCaptcha == AnySolveCall \/ CaStep

SpecCaptcha == Init /\ [][NextCaptcha]_vars

\* solve_recaptcha runs on the only thread of the program: once called, its
\* next step is taken (every request returns or raises, every sleep ends)
SpecCaptchaFair == SpecCaptcha /\ WF_vars(CaStep)

\* one call of download_products
NextDownload == ApiSend \/ ApiFetchJwt \/ ApiResend \/ AnyDownloadCall \/ DlStep

SpecDownload == InitDownload /\ [][NextDownload]_vars

\* two threads share a client that has logged in, each calls request() once
NextThreads == ThStep

SpecThreads == InitDownload /\ [][NextThreads]_vars

\* any calls of grab_ebook and download_books on one object
NextSession == AnyScriptCall \/ AnyScriptReturn \/ PfStep

SpecSession == Init /\ [][NextSession]_vars

\* one run of the script
NextMain == MainStep \/ PfStep

SpecMain == Init /\ [][NextMain]_vars

\* calls of download_products on one directory, seen as the paths they use
NextPaths == PtCall \/ PtVisit

SpecPaths == Init /\ [][NextPaths]_vars

\* one call of claim_product
Next == ApiStep \/ CatStep \/ CaStep \/ ClStep

Spec == Init /\ [][Next]_vars

----------------------------------------------------------------------------
(* Properties of PacktAPIClient.request, checked under SpecApi *)

\* C1: a call of request() whose first response is 401 makes exactly one token
\* fetch and sends the same request exactly twice, returning the second response
\* whatever its status; a first response with any other status is returned with
\* no token fetch and no second send.
C1_RetryOnceOn401 ==
    /\ Len(reqSent) <= 2
    /\ reqFetches <= 1
    /\ \A i \in 1..Len(reqSent) : reqSent[i].req = apiReq
    /\ reqFetches = 1 => reqStatuses # <<>> /\ reqStatuses[1] = 401
    /\ apiPc = "done" =>
          IF reqStatuses[1] = 401
            THEN /\ reqFetches = 1
                 /\ Len(reqSent) = 2
                 /\ Len(reqStatuses) = 2
                 /\ apiResp = reqStatuses[2]
            ELSE /\ reqFetches = 0
                 /\ Len(reqSent) = 1
                 /\ Len(reqStatuses) = 1
                 /\ apiResp = reqStatuses[1]

\* two 401 in a row: the second one is what request() returns
C1_Witness == apiPc = "done" /\ reqStatuses = <<401, 401>> /\ apiResp = 401

\* C11: a token fetch that fails (the login request raises, or its body has no
\* token) never raises out of the client: the constructor ends with a usable
\* client, request() returns the response the upstream gave, and a 401 received
\* while no fetch has given a token yet starts a fresh fetch, after which the
\* request is sent again.
C11_FailedFetchNeverRaises ==
    [][ /\ apiPc' # "failed"
        /\ apiPc = "new" => apiPc' = "idle" /\ fetchSerial' = 1
        /\ apiPc = "refresh" => apiPc' = "resend" /\ fetchSerial' = fetchSerial + 1
        /\ (apiPc = "send" /\ hdrAuth <= 0 /\ reqStatuses' = <<401>>) => apiPc' = "refresh"
        /\ apiPc' = "raised" => Len(reqSent') = reqFetches' + 1
        /\ apiPc' = "done" => apiResp' = reqStatuses'[Len(reqStatuses')]
      ]_vars

\* both the constructor's fetch and the fetch after the 401 failed, and the
\* request still returned the upstream's second response
C11_Witness ==
    /\ apiPc = "done"
    /\ hdrAuth = 0
    /\ fetchSerial = 2
    /\ reqStatuses = <<401, 200>>
    /\ apiResp = 200

C29_FailedFetchLeavesHeader ==
    [][fetchSerial' # fetchSerial => hdrAuth' \in {hdrAuth, fetchSerial'}]_vars

\* what holds instead: besides those two, a fetch may leave 'Bearer None'
C29_HeaderKeptTokenOrNone ==
    [][fetchSerial' # fetchSerial => hdrAuth' \in {hdrAuth, fetchSerial', -1}]_vars

----------------------------------------------------------------------------
(* Properties of get_all_books_data, checked under SpecCatalog *)

\* C2: the list get_all_books_data returns never holds two products with the
\* same id.
C2_NoDuplicateIds ==
    (catPc = "done" /\ catResult.ok) =>
        \A i, j \in 1..Len(catResult.items) :
            i # j => catResult.items[i].id # catResult.items[j].id

\* C3: when the count request succeeded and a page fetch failed, the fetch as a
\* whole still returns the products of the other pages.
C3_FailedPageIsolated ==
    (catPc = "done" /\ \E i \in 1..Len(catPages) : ~catPages[i].ok) =>
        /\ catResult.ok
        /\ catResult.items = Flatten(catPages)

\* the page requests get_all_books_data has made, in order
PageCalls == SelectSeq(calls, LAMBDA c : c.url = "products" /\ c.arg >= 0)

\* C20: when the count request reported n, get_all_books_data makes exactly
\* ceil(n / 25) page requests, in ascending order, page p at offset 25 * p, and
\* returns the products of the pages concatenated in page order; for n = 0 it
\* makes no page request and returns the empty list.
C20_PagesRequestedAndChained ==
    (catPc = "done" /\ catCount >= 0) =>
        LET k == CHOOSE j \in 0..catCount : 25 * j >= catCount /\ 25 * (j - 1) < catCount
        IN  /\ Len(PageCalls) = k
            /\ \A p \in 1..k : PageCalls[p].arg = 25 * (p - 1) /\ PageCalls[p].m = "get"
            /\ Len(catPages) = k
            /\ catResult.ok
            /\ catResult.items = Flatten(catPages)

\* the part of C20 about the requests alone
C20_PagesRequested ==
    (catPc = "done" /\ catCount >= 0) =>
        LET k == CHOOSE j \in 0..catCount : 25 * j >= catCount /\ 25 * (j - 1) < catCount
        IN  /\ Len(PageCalls) = k
            /\ \A p \in 1..k : PageCalls[p].arg = 25 * (p - 1) /\ PageCalls[p].m = "get"
            /\ (\A i \in 1..k : catPages[i].ok)
                  => catResult.ok /\ catResult.items = Flatten(catPages)

\* C21: when the count request fails, by a network error or by a body that
\* cannot be parsed, that holds no count or whose count is no number,
\* get_all_books_data returns no data, logs one error and makes no page request.
C21_CountFailureReturnsNone ==
    (catPc \in {"done", "raised"} /\ catCount = -1) =>
        /\ catPc = "done"
        /\ catResult = NoList
        /\ catLog = <<LogLine("error", "books", -1)>>
        /\ PageCalls = <<>>

\* the part of C21 that holds: a body without a usable count
C21_BadShapeReturnsNone ==
    (catPc = "done" /\ catCount = -1) =>
        /\ catResult = NoList
        /\ catLog = <<LogLine("error", "books", -1)>>
        /\ PageCalls = <<>>

----------------------------------------------------------------------------
(* Properties of claim_product, checked under Spec *)

HasClaimPut == \E i \in 1..Len(calls) : calls[i].url = "claim"

CaptchaUntouched == caPc = "idle" /\ nCreate = 0 /\ nPolls = 0 /\ clSolution = ""

\* C4: when the offered product is already in the catalog, claim_product
\* returns the Product, without a CAPTCHA request and without a claim PUT.
C4_OwnedReturnsProduct ==
    clOwned = "yes" =>
        /\ clOutcome = "returned"
        /\ productData.some
        /\ CaptchaUntouched
        /\ ~HasClaimPut

C6_ClaimStatusLogged ==
    clStatus # 0 =>
        /\ clOutcome = "returned"
        /\ clLog # <<>>
        /\ clLog[Len(clLog)] =
              (CASE clStatus = 200 -> LogLine("info", "grabbed", -1)
                 [] clStatus = 409 -> LogLine("info", "already_claimed", -1)
                 [] OTHER          -> LogLine("error", "claim_failed", -1))

\* C7: when the product summary was not fetched (product_data is None), the
\* ownership check and the claim still end with claim_product returning.
C7_MissingTitleTolerated ==
    (~productData.some /\ (clOwned = "yes" \/ clStatus # 0)) =>
        clOutcome = "returned"

\* C23: within one claim_product call the requests go out in the order offers
\* query, user lookup, product summary, catalog requests, claim PUT, the CAPTCHA
\* being solved after the catalog fetch and before the PUT; the PUT is made only
\* in the step that takes a solution from the solver and carries exactly that
\* solution; when the solver raised, no PUT is sent.
C23_OrderAndSolution ==
    /\ [](/\ Len(calls) >= 1 => calls[1] = OffersRequest
          /\ Len(calls) >= 2 => calls[2] = UserRequest
          /\ Len(calls) >= 3 => calls[3] = SummaryRequest(offer.productId)
          /\ \A i \in 4..Len(calls) :
                \/ calls[i].url = "products"
                \/ /\ i = Len(calls)
                   /\ i > 4
                   /\ calls[i] = [m |-> "put", url |-> "claim", arg |-> offer.id,
                                  body |-> clSolution]
          /\ (caPc # "idle" \/ clSolution # "") =>
                /\ clOwned = "no"
                /\ catPc = "idle"
                /\ Len(calls) >= 4
          /\ caPc # "idle" => ~HasClaimPut
          /\ HasClaimPut => clSolution \in Solutions
          /\ clErr = "AnticaptchaException" => (~HasClaimPut /\ clSolution = ""))
    /\ [][(HasClaimPut' /\ ~HasClaimPut) =>
             (caPc = "done" /\ clSolution' = caSolution /\ caSolution \in Solutions)]_vars
    /\ [][(caPc = "raised" /\ caPc' = "idle") =>
             (clErr' = "AnticaptchaException" /\ calls' = calls)]_vars

\* a claim PUT was sent with the solution and claim_product returned
C23_Witness == HasClaimPut /\ clSolution \in Solutions /\ clOutcome = "returned"

\* C24: when get_all_books_data hands None to claim_product, the product is
\* not taken as not owned: the call ends there with an exception, no CAPTCHA is
\* requested and no claim PUT is sent.
C24_NoCatalogNoClaim ==
    /\ [][(clPc = "catalog" /\ catPc = "done" /\ catResult = NoList) =>
             /\ clPc' = "end"
             /\ clOutcome' = "raised"
             /\ clOwned' = "unknown"
             /\ caPc' = "idle"
             /\ calls' = calls]_vars
    /\ [](clOwned = "unknown" => (CaptchaUntouched /\ ~HasClaimPut))
    /\ [][clPc = "end" => UNCHANGED <<clVars, calls, caVars>>]_vars

\* the catalog came back as None after a page request, and claim_product ended
\* with the TypeError of iterating it
C24_Witness ==
    /\ clPc = "end"
    /\ clOwned = "unknown"
    /\ clErr = "TypeError"
    /\ Len(calls) > 4

----------------------------------------------------------------------------
(* Properties of Anticaptcha.solve_recaptcha, checked under SpecCaptcha *)

\* C8: k polls that are not ready followed by a ready one, all within the
\* timeout: the solution of the ready response is returned after exactly k+1
\* polls and k sleeps; no sleep precedes the first poll or follows the ready one.
C8_PollsAndSleeps ==
    /\ nPolls = 0 => nSleeps = 0
    /\ nSleeps <= nNotReady
    /\ caPc = "done" =>
          /\ caLast.status = "ready"
          /\ caSolution = caLast.solution
          /\ caSolution \in Solutions
          /\ nPolls = nNotReady + 1
          /\ nSleeps = nNotReady

\* two polls in processing, then a ready one
C8_Witness == caPc = "done" /\ nNotReady = 2 /\ nPolls = 3 /\ nSleeps = 2

\* C9: a poll starts only while the elapsed wait is below 120 seconds; once the
\* loop condition is evaluated with the wait at or past 120 seconds the call
\* fails with the timeout error naming 120 and no further poll is made; the
\* timeout error is never raised below 120 seconds.
C9_Timeout ==
    /\ [](/\ caPc = "poll" => now < 120
          /\ caErr.kind = "timeout" =>
                /\ caPc = "raised"
                /\ now >= 120
                /\ caErr.value = 120)
    /\ [][(caPc = "check" /\ now >= 120) =>
             (caPc' = "raised" /\ caErr'.kind = "timeout" /\ nPolls' = nPolls)]_vars
    /\ [][caErr.kind = "timeout" => nPolls' = nPolls]_vars

\* the timeout is hit exactly at 120 seconds
C9_Witness == caPc = "raised" /\ caErr.kind = "timeout" /\ now = 120 /\ nPolls > 0

\* C10: a createTask or getTaskResult response with a provider error makes the
\* call fail with an error carrying the provider's code and description; no
\* request is sent afterwards and no solution is returned.
C10_ProviderError ==
    /\ [](caLast.errorId # 0 =>
             /\ caPc = "raised"
             /\ caErr.kind = "provider"
             /\ caErr.code = caLast.errorCode
             /\ caErr.desc = caLast.errorDescription
             /\ caSolution = "")
    /\ [][caLast.errorId # 0 => (nCreate' = nCreate /\ nPolls' = nPolls)]_vars
    /\ [](caErr.kind = "provider" => caLast.errorId # 0)

\* a poll answered with a provider error after a poll in processing
C10_Witness ==
    /\ caPc = "raised"
    /\ caErr.kind = "provider"
    /\ caErr.code = "ERROR_ZERO_BALANCE"
    /\ nPolls = 2

----------------------------------------------------------------------------
(* Properties of download_products, checked under SpecDownload *)

\* the step of the inner loop is at a format that is in download_urls and selected
AtSelected ==
    /\ dlPc = "fmt"
    /\ dlFmt <= Len(FormatOrder)
    /\ CurFormat \in dlUrls
    /\ CurFormat \in dlFormats
    /\ ~(CurFormat = "code" /\ "video" \in dlUrls /\ "video" \in dlFormats)

\* the positions of the download of one format
Downloading == {"indirect", "url", "fetch", "stream"}

\* the destinations renamed into during this call
Renamed == {path \in DOMAIN disk : disk[path] = "whole"}

\* C13: when the destination of a selected format exists already, be it from
\* before the call or from earlier in it, the step makes no HTTP call, leaves
\* the count as it is, logs an informational line, raises nothing and leaves
\* every file as it is.
C13_ExistingFileSkipped ==
    [][ ( /\ AtSelected
          /\ IF CurFull \in DOMAIN disk
               THEN disk[CurFull] \in {"old", "whole"}
               ELSE Contents(disk', CurFull) = "old" )
        => /\ apiVars' = apiVars
           /\ dlCount' = dlCount
           /\ dlLogged' = [level |-> "info", what |-> "exists"]
           /\ dlPc' = "fmt" /\ dlFmt' = dlFmt + 1
           /\ dlErr' = ""
           /\ \A q \in DOMAIN disk : disk'[q] = disk[q]
           /\ DOMAIN disk' = DOMAIN disk \cup {CurFull}
      ]_vars

\* an old file was found and nothing was downloaded
C13_Witness ==
    /\ dlPc = "fmt"
    /\ dlLogged = [level |-> "info", what |-> "exists"]
    /\ dlCount = 0
    /\ \E q \in DOMAIN disk : disk[q] = "old"

\* C14: the code of a book is requested only when the video is not both
\* available and asked for; and when the code is available and asked for and
\* the video is not both, the code has been dealt with once the inner loop is
\* past it: its destination was found or its download was started.
C14_CodeSkippedIffVideo ==
    /\ (dlPc \in Downloading \cup {"crashed"} /\ CurFormat = "code")
          => /\ "code" \in dlUrls /\ "code" \in dlFormats
             /\ ~("video" \in dlUrls /\ "video" \in dlFormats)
    /\ ( /\ dlPc = "fmt" /\ dlFmt > Len(FormatOrder)
          /\ "code" \in dlUrls /\ "code" \in dlFormats
          /\ ~("video" \in dlUrls /\ "video" \in dlFormats) )
          => FullFilePath(TitleOf(dlBook), "code", dlIntoFolder) \in DOMAIN disk

\* the video is asked for but the book has none: the code is streamed
C14_Witness ==
    /\ dlPc = "stream"
    /\ CurFormat = "code"
    /\ "video" \in dlFormats
    /\ "video" \notin dlUrls

\* C15: in every state of download_products, a crash in the middle of a stream
\* included, a file at a destination was there before the call or holds a
\* whole body; while a body is streamed its destination is absent and the
\* chunks are in the temporary file.
C15_FinalPathNeverPartial ==
    /\ \A path \in DOMAIN disk :
          IsFinalPath(path) => disk[path] \in {"absent", "old", "whole"}
    /\ dlPc \in {"stream", "crashed"} =>
          /\ Contents(disk, CurFull) = "absent"
          /\ Contents(disk, CurTemp) = "part"

\* the process died with a chunk in the temporary file, after another file
\* had been downloaded whole
C15_Witness ==
    /\ dlPc = "crashed"
    /\ dlWritten >= 1
    /\ Contents(disk, CurTemp) = "part"
    /\ Renamed # {}

\* C16: once the download of a format that got as far as opening the temporary
\* file is over, whether it succeeded or failed while opening, streaming or
\* renaming, the temporary file is not there: outside a stream no temporary
\* file this call has touched exists.
C16_TempFileRemoved ==
    dlPc \notin {"stream", "crashed"} =>
        \A path \in DOMAIN disk : ~IsFinalPath(path) => disk[path] = "absent"

\* a download failed after the temporary file was opened
C16_Witness ==
    /\ dlPc = "fmt"
    /\ dlLogged = [level |-> "error", what |-> "failed"]
    /\ dlCount = 0
    /\ CurTemp \in DOMAIN disk
    /\ disk[CurTemp] = "absent"

\* C17: a file types lookup that does not succeed, by its status, a network
\* error or a malformed payload, is logged, gives the book no formats and lets
\* download_products go on.
C17_LookupFailureIsolated ==
    [][ (dlPc = "types" /\ dlPc' # "types")
        => /\ dlPc' = "fmt"
           /\ (apiPc = "raised" \/ apiResp # 200)
                 => dlUrls' = {} /\ dlLogged' = [level |-> "info", what |-> "no_urls"]
      ]_vars

\* C17 as the code has it: a lookup answered with a status other than 200 is
\* logged, gives the book no formats and lets download_products go on; a
\* lookup that raises, or whose payload is malformed, leaves
\* download_products as a PacktConnectionError.
C17_StatusIsolatedErrorRaised ==
    [][ (dlPc = "types" /\ dlPc' # "types")
        => /\ (apiPc = "done" /\ apiResp # 200)
                 => /\ dlPc' = "fmt" /\ dlFmt' = 1
                    /\ dlUrls' = {}
                    /\ dlLogged' = [level |-> "info", what |-> "no_urls"]
                    /\ dlErr' = ""
                    /\ dlCount' = dlCount /\ disk' = disk
           /\ apiPc = "raised" => dlPc' = "raised"
           /\ dlPc' = "raised"
                 => /\ apiPc = "raised" \/ apiResp = 200
                    /\ dlErr' = "PacktConnectionError"
                    /\ dlLogged' = dlLogged
           /\ dlPc' \in {"fmt", "raised"}
      ]_vars

\* the lookup of the first book was answered with another status, and the
\* second book is looked up
C17_Witness ==
    /\ dlPc = "types"
    /\ dlNBooks = 2
    /\ dlLogged = [level |-> "info", what |-> "no_urls"]

C19_ReturnsCount ==
    dlPc = "done" =>
        /\ dlFinal = Cardinality(Renamed)
        /\ dlReturn = [none |-> FALSE, n |-> Cardinality(Renamed)]

\* C19 as the code has it: the count is the number of destinations streamed and
\* renamed so far, the closing line logs it, and download_products returns None.
C19_LogsCount ==
    /\ dlCount = Cardinality(Renamed)
    /\ dlPc = "done" =>
          /\ dlFinal = Cardinality(Renamed)
          /\ dlLogged = [level |-> "info", what |-> "total"]
          /\ dlReturn.none

\* one destination downloaded, one found, one failed
C19_Witness ==
    /\ dlPc = "done"
    /\ dlFinal = 1
    /\ \E q \in DOMAIN disk : disk[q] = "old"
    /\ \E q \in DOMAIN disk : IsFinalPath(q) /\ disk[q] = "absent"

----------------------------------------------------------------------------
(* Properties of request() called from two threads, checked under SpecThreads *)

\* C27: when two calls of request() on one client are in flight together and
\* both were answered 401 for the same token, one token fetch is made for the
\* two of them.
C27_SingleFlight ==
    \A t \in Threads, u \in Threads :
        (/\ t # u
         /\ thr[t].pc \in {"refresh", "resend"}
         /\ thr[u].pc \in {"refresh", "resend"}
         /\ thr[t].auth = thr[u].auth) =>
            thr[t].fetched + thr[u].fetched <= 1

\* what holds instead: each call answered 401 makes a fetch of its own
C27_OneFetchPerCall ==
    \A t \in Threads :
        /\ thr[t].fetched <= 1
        /\ thr[t].pc = "refresh" => thr[t].fetched = 0
        /\ thr[t].pc = "resend" => thr[t].fetched = 1

----------------------------------------------------------------------------
(* Properties of the script's object, checked under SpecSession *)

\* C28: in download_books a file is at a destination path only if its download
\* completed: an unfinished file is there at most while its body is streamed,
\* and a download that failed midway has left nothing there (so that a later
\* run does not find it as already existing).
C28_FinalPathOnlyWhenComplete ==
    \A p \in DOMAIN files :
        files[p] = "part" => (pfPc = "stream" /\ p = PfCurPath)

\* C30: the body of grab_ebook or download_books runs only when a login on the
\* object has completed, and at most one login completes per object.
C30_BodyOnlyAfterLogin ==
    /\ pfPc \in {"body", "claim", "loop", "form", "stream"} => loggedIn
    /\ nLogins <= 1

\* the part of C30 that holds: at most one login completes per object
C30_AtMostOneLogin == nLogins <= 1 /\ (loggedIn <=> nLogins = 1)

----------------------------------------------------------------------------
(* Properties of the script's run, checked under SpecMain *)

\* C22: the script exits with a non-zero code exactly when an exception left
\* one of the stages configuration, grab, download, send; the stage it left is
\* the last one begun and the object is not used afterwards; a run whose
\* operations only passed items over (book already grabbed, file already
\* there, one download failed and logged) ends with the success message and
\* the exit code 0.
C22_ExitCode ==
    /\ mnPc # "exited" => exitCode = -1
    /\ mnPc = "exited" =>
          /\ exitCode # -1
          /\ exitCode # 0 <=> mnEscaped # ""
          /\ exitCode = 0 <=> mnSuccess
    /\ mnEscaped # "" =>
          /\ mnPc \in {"handler", "exited"}
          /\ mnStages # <<>>
          /\ mnStages[Len(mnStages)] = mnEscaped
          /\ pfPc = "idle"
          /\ ~mnSuccess
    /\ \A i \in 1..Len(mnStages), j \in 1..Len(mnStages) :
          (i < j /\ mnStages[i] = "grab") => mnStages[j] \in {"download", "send"}
    /\ (mnPc = "exited" /\ mnEscaped = "" /\ mnSkipped # {}) =>
          (mnSuccess /\ exitCode = 0)

\* the grab found the book already grabbed, then an exception left the
\* download stage and the script exited with 2
C22_Witness ==
    /\ mnPc = "exited"
    /\ exitCode = 2
    /\ mnEscaped = "download"
    /\ mnSkipped = {"already_grabbed"}
    /\ mnStages = <<"config", "grab", "download">>

----------------------------------------------------------------------------
(* Properties of the destination paths, checked under SpecPaths *)

\* C31: a destination path stands for one product and one format: whenever
\* the already-exists skip is taken, the file found was written for the same
\* product id and the same format.
C31_PathIdentifiesPair ==
    ptSkip.some => ptSkip.owner = ptSkip.for

\* what holds instead: the file found was written for a product of the same
\* slug and a format of the same extension
C31_PathIdentifiesSlugAndExtension ==
    ptSkip.some =>
        /\ Slug(TitleOf(ptSkip.owner[1])) = Slug(TitleOf(ptSkip.for[1]))
        /\ Extension(ptSkip.owner[2]) = Extension(ptSkip.for[2])

====
